---------------------------- MODULE Spec2Model ----------------------------
(***************************************************************************)
(* A model of the book-scanner client: ISBN normalisation, the two-source  *)
(* metadata resolver and the scan pipeline built on it, the recent-scans   *)
(* duplicate filter, the JSON export/import, the books/groups tables with  *)
(* their row-level-security policies, and the camera start/stop effect.    *)
(*                                                                         *)
(* Every subsystem has its own variables and its own specification; the    *)
(* variables of the other subsystems stay at their initial values.         *)
(* Strings are sequences of one-character strings.  A JavaScript null (and *)
(* the empty string, which the code never tells apart from null: it only   *)
(* tests truthiness) is the empty sequence.                                *)
(***************************************************************************)
EXTENDS Integers, Sequences, FiniteSets, TLC

VARIABLES
  \* ---- normalisation (Scanner.handleScanned)
  nRaw, nOut, nPc,
  \* ---- scan pipeline: ScannerInterface state
  currentISBN, isProcessingISBN, scanning, status, activeGroupId, manualISBN,
  \* the isProcessingISBN the running decode callback closed over
  cbProcessing, decoding,
  \* react-query cache of ['book', isbn] and the fetch in flight for it
  qStatus, qData, primaryResp,
  \* whether an ISBN has been submitted since the last request sent for it
  fresh,
  \* ISBNFetcher: effect scheduled by the last render; addBook promises in flight
  effectPending, pendingAdds,
  \* stored books (one user), and the history the claims speak about
  books, everMatched, nEvents,
  \* what the user did in the last step, if the last step was the user's
  lastEvent,
  \* the group that was active when the current ISBN was submitted
  submitGroup,
  \* ---- duplicate filter: App state, what the decode callback closed over, the
  \* pending timeouts per ISBN, lookups in flight, and scan-triggered lookups
  dScanning, recentScans, lastScan, cbRecentScans, cbLastScan, timers, dLookups,
  dItems, scanLookups, dEvents,
  \* ---- export/import: ScannerInterface's items, groups, activeGroupId; the last
  \* exported file and the state it was taken from; what happened last
  jItems, jGroups, jActiveGroupId, jExported, jHasExport, jSnapshot, jLastOp,
  jAlerted, jEvents,
  jStored, jPc, jLoaded, jBefore,
  \* ---- stored collection: rows of books and groups, the id generators, the
  \* outcome of the last statement
  dbBooks, dbGroups, dbNextBook, dbNextGroup, dbLast, dbOps,
  \* ---- camera: the page's origin and cameras; ScannerInterface's scanning,
  \* selectedCameraId, availableCameras, cameraPermission, status; the calls of
  \* start() made so far and the decode session of each; scannerControlsRef;
  \* pending restart timers; the number of toggle-on periods so far
  cEnv, cScanning, cSelectedCameraId, cAvailableCameras, cPermission, cStatus, cStarts,
  cControlsRef, cTimers, cPeriod, cEvents, cStopPressed,
  \* ---- resolver: which fetchBookByISBN is called, what the two sources answer, what it returns
  rImpl, rPrimary, rSecondary, rResult, rPc,
  \* ---- Open Library search: useOpenLibrarySearch under OpenLibrarySearch
  sTitle, sAuthor, sTimer, sTimerOld, sDebounced, sQuery, sFailures, sHeld, sEvents,
  \* ---- Open Library search: selection of a result in OpenLibrarySearch
  selWorks, selectedWorkKey, selCalls, selEvents

normVars == <<nRaw, nOut, nPc>>

uiState == <<currentISBN, isProcessingISBN, scanning, status, activeGroupId, manualISBN>>

pipeVars == <<uiState, cbProcessing, decoding, qStatus, qData, primaryResp, fresh, effectPending,
              pendingAdds, books, everMatched, nEvents, lastEvent, submitGroup>>

dupVars == <<dScanning, recentScans, lastScan, cbRecentScans, cbLastScan, timers,
             dLookups, dItems, scanLookups, dEvents>>

jsonVars == <<jItems, jGroups, jActiveGroupId, jExported, jHasExport, jSnapshot, jLastOp,
              jAlerted, jEvents,
             jStored, jPc, jLoaded, jBefore>>

dbVars == <<dbBooks, dbGroups, dbNextBook, dbNextGroup, dbLast, dbOps>>

camVars == <<cEnv, cScanning, cSelectedCameraId, cAvailableCameras, cPermission, cStatus,
             cStarts, cControlsRef, cTimers, cPeriod, cEvents, cStopPressed>>

resVars == <<rImpl, rPrimary, rSecondary, rResult, rPc>>

searchVars == <<sTitle, sAuthor, sTimer, sTimerOld, sDebounced, sQuery, sFailures, sHeld, sEvents>>

selVars == <<selWorks, selectedWorkKey, selCalls, selEvents>>

vars == <<normVars, pipeVars, dupVars, jsonVars, dbVars, camVars, resVars, searchVars, selVars>>

Null == <<>>

(***************************************************************************)
(* Characters and normalizeISBN                                            *)
(***************************************************************************)
Digits == {"0", "1", "2", "3", "4", "5", "6", "7", "8", "9"}

\* the characters the class [^0-9Xx] does not match
IsbnChars == Digits \cup {"X", "x"}

\* the characters raw input is drawn from
Chars == {"1", "9", "X", "x", "-", "a"}

MaxRawLen == 3

RECURSIVE SeqsUpTo(_, _)
SeqsUpTo(S, n) ==
  IF n = 0 THEN {<<>>}
  ELSE LET shorter == SeqsUpTo(S, n - 1)
       IN shorter \cup {Append(s, c) : s \in {t \in shorter : Len(t) = n - 1}, c \in S}

RawStrings == SeqsUpTo(Chars, MaxRawLen)

\* raw.replace(/[^0-9Xx]/, '') without the g flag: only the first match goes
RECURSIVE ReplaceFirst(_)
ReplaceFirst(raw) ==
  IF raw = <<>> THEN <<>>
  ELSE IF Head(raw) \notin IsbnChars THEN Tail(raw)
  ELSE <<Head(raw)>> \o ReplaceFirst(Tail(raw))

\* raw.replace(/[^0-9Xx]/g, ''): scan left to right, drop every match
RECURSIVE ReplaceAll(_)
ReplaceAll(raw) ==
  IF raw = <<>> THEN <<>>
  ELSE IF Head(raw) \notin IsbnChars THEN ReplaceAll(Tail(raw))
  ELSE <<Head(raw)>> \o ReplaceAll(Tail(raw))

normalizeISBN(raw) == ReplaceAll(raw)

(***************************************************************************)
(* Scanner.handleScanned: normalise, drop an empty result, else emit.      *)
(***************************************************************************)
InitNormOnly ==
  /\ nRaw \in RawStrings
  /\ nOut = Null
  /\ nPc = "decoded"

IdleNorm ==
  /\ nRaw = <<>>
  /\ nOut = Null
  /\ nPc = "idle"

ScannerHandleScanned ==
  /\ UNCHANGED <<pipeVars, dupVars, jsonVars, dbVars, camVars, resVars, searchVars, selVars>>
  /\ nPc = "decoded"
  /\ LET isbn == normalizeISBN(nRaw)
     IN \/ /\ isbn = <<>>
           /\ nPc' = "dropped"
           /\ nOut' = isbn
        \/ /\ isbn # <<>>
           /\ nPc' = "emitted"
           /\ nOut' = isbn
  /\ UNCHANGED nRaw


(***************************************************************************)
(* The scan pipeline: ScannerInterface, ISBNFetcher, useBookByISBN.        *)
(***************************************************************************)
MaxEvents == 4

\* what a scan or the manual field can deliver
PipeRaws == {<<"-">>, <<" ", "1", "-">>, <<"2">>}

ISBNs == {normalizeISBN(r) : r \in PipeRaws} \ {<<>>}

GroupIds == {"GROUP-1", "GROUP-2"}

\* String.prototype.trim on the model's strings: leading and trailing blanks go
RECURSIVE TrimLeft(_)
TrimLeft(s) == IF s # <<>> /\ Head(s) = " " THEN TrimLeft(Tail(s)) ELSE s

RECURSIVE TrimRight(_)
TrimRight(s) ==
  IF s # <<>> /\ s[Len(s)] = " " THEN TrimRight(SubSeq(s, 1, Len(s) - 1)) ELSE s

Trim(s) == TrimRight(TrimLeft(s))

\* ---- what a metadata source can answer to one request
\* kind "fail": network error or non-OK response; "none": OK, no entry for the
\* ISBN; "entry": OK with an entry, whose title and authors may be missing
Responses(title, author) ==
  {[kind |-> "fail", title |-> "", authors |-> <<>>, hasAuthors |-> FALSE],
   [kind |-> "none", title |-> "", authors |-> <<>>, hasAuthors |-> FALSE]}
  \cup [kind : {"entry"}, title : {"", title}, authors : {<<author>>}, hasAuthors : BOOLEAN]

PrimaryResponses == Responses("PrimaryTitle", "PrimaryAuthor")

SecondaryResponses == Responses("SecondaryTitle", "SecondaryAuthor")

\* the answers the pipeline is run with: entries with or without a title
PipeResponses(rs) == {r \in rs : r.kind = "entry" => r.hasAuthors}

NoResponse == [kind |-> "pending", title |-> "", authors |-> <<>>, hasAuthors |-> FALSE]

\* a query result: fetchBookByISBN's BookData, or its null
NoData == [found |-> FALSE, title |-> "", authors |-> <<>>]

BookData(title, authors) == [found |-> TRUE, title |-> title, authors |-> authors]

\* `if (entry)`: the test of scannerUtils.fetchBookByISBN
PrimaryMatchesEntryOnly(r) == r.kind = "entry"

\* `if (entry && entry.title)`
PrimaryMatches(r) == r.kind = "entry" /\ r.title # ""

\* {title: entry.title, authors: entry.authors?.map((a) => a.name) || []}
PrimaryData(r) == BookData(r.title, IF r.hasAuthors THEN r.authors ELSE <<>>)

\* `if (data.items && data.items[0])`
SecondaryMatches(r) == r.kind = "entry"

\* {title: book.title || 'Unknown Title', authors: book.authors || []}
SecondaryData(r) ==
  BookData(IF r.title # "" THEN r.title ELSE "Unknown Title",
           IF r.hasAuthors THEN r.authors ELSE <<>>)

\* useQuery's data for the current key: undefined (here NoData) until the first
\* fetch is done, then what the last finished fetch returned
bookData == IF currentISBN # Null THEN qData[currentISBN] ELSE NoData

\* useQuery's error: fetchBookByISBN catches every failure and returns null, so
\* the query never ends in error
queryError == FALSE

NoStatus == [kind |-> "none", isbn |-> Null]



InitPipe ==
  /\ currentISBN = Null
  /\ isProcessingISBN = FALSE
  /\ scanning = FALSE
  /\ status = NoStatus
  /\ activeGroupId = "GROUP-1"
  /\ manualISBN = <<>>
  /\ cbProcessing = FALSE
  /\ decoding = FALSE
  /\ qStatus = [i \in ISBNs |-> "absent"]
  /\ qData = [i \in ISBNs |-> NoData]
  /\ primaryResp = [i \in ISBNs |-> NoResponse]
  /\ fresh = [i \in ISBNs |-> FALSE]
  /\ effectPending = FALSE
  /\ pendingAdds = <<>>
  /\ books = {}
  /\ everMatched = [i \in ISBNs |-> FALSE]
  /\ nEvents = 0
  /\ lastEvent = "none"
  /\ submitGroup = ""

\* a state change of ScannerInterface re-renders it; the callbacks it hands to
\* ISBNFetcher are new functions on every render, so the effect runs again
Rerender == effectPending' = (effectPending \/ uiState' # uiState)

\* setCurrentISBN(isbn) of addISBN happens while activeGroupId is the active
\* group; submitGroup keeps that group for as long as the ISBN is the current one
GroupAtSubmit ==
  submitGroup' = IF currentISBN' = Null THEN ""
                 ELSE IF currentISBN' # currentISBN THEN activeGroupId
                 ELSE submitGroup

\* a step of the pipeline leaves the other subsystems alone
PipeFrame == UNCHANGED <<normVars, dupVars, jsonVars, dbVars, camVars, resVars, searchVars, selVars>>

\* the user does something; kind says what came of it
UserEvent(kind) ==
  /\ ~effectPending
  /\ nEvents < MaxEvents
  /\ nEvents' = nEvents + 1
  /\ lastEvent' = kind

\* a decoded text: nothing is left of it, or it comes while the callback sees
\* an ISBN in process, or it is taken
ScanKind(raw) ==
  IF normalizeISBN(raw) = <<>> THEN "emptyScan"
  ELSE IF cbProcessing THEN "ignoredScan"
  ELSE "scan"

\* Enter or Add: on a blank field, on text of which nothing is left, or on an ISBN
SubmitKind ==
  IF Trim(manualISBN) = <<>> THEN "blankSubmit"
  ELSE IF normalizeISBN(Trim(manualISBN)) = <<>> THEN "emptySubmit"
  ELSE "submit"

\* a test that lets every string through
NeverEmpty(isbn) == FALSE

\* `!isbn`
EmptyISBN(isbn) == isbn = <<>>

\* a step that is not the user's
NoUserEvent ==
  /\ nEvents' = nEvents
  /\ lastEvent' = "none"

History == <<books, everMatched>>

\* the decode session: the value of isProcessingISBN its callback closes over,
\* and whether it still delivers decoded texts
session == <<cbProcessing, decoding>>

\* setScanning(false) was called outside an event handler and the render that
\* follows has not yet run its effects, the cleanup of the Scanner effect among
\* them: the session still decodes
StopPending == effectPending /\ decoding /\ ~scanning

Query == <<qStatus, qData, primaryResp>>

\* the user submits isbn, by a scan or by the manual field
Submitted(isbn) == fresh' = [fresh EXCEPT ![isbn] = TRUE]

\* the Start/Stop button: setScanning((s) => !s); the Scanner effect then starts
\* or stops the decode session, whose callback closes over this render
ToggleScanner ==
  /\ PipeFrame
  /\ UNCHANGED submitGroup
  /\ UserEvent("toggle")
  /\ scanning' = ~scanning
  /\ cbProcessing' = IF scanning THEN cbProcessing ELSE isProcessingISBN
  /\ decoding' = ~scanning
  /\ UNCHANGED <<currentISBN, isProcessingISBN, status, activeGroupId, manualISBN>>
  /\ Rerender
  /\ UNCHANGED <<Query, pendingAdds, History>>
  /\ UNCHANGED fresh

\* the decode callback: Scanner.handleScanned, then ScannerInterface.handleScanned
HandleScanned(raw) ==
  /\ PipeFrame
  /\ ~effectPending \/ StopPending
  /\ nEvents < MaxEvents
  /\ nEvents' = nEvents + 1
  /\ lastEvent' = ScanKind(raw)
  /\ decoding
  /\ LET isbn == normalizeISBN(normalizeISBN(raw))
     IN IF EmptyISBN(isbn) \/ cbProcessing
        THEN UNCHANGED <<uiState, fresh>>
        ELSE /\ scanning' = FALSE
             /\ isProcessingISBN' = TRUE
             /\ currentISBN' = isbn
             /\ Submitted(isbn)
             /\ UNCHANGED <<status, activeGroupId, manualISBN>>
  /\ Rerender
  /\ UNCHANGED <<session, Query, pendingAdds, History>>
  /\ GroupAtSubmit

\* typing into the manual field: setManualISBN(e.target.value)
TypeManual(raw) ==
  /\ PipeFrame
  /\ UNCHANGED submitGroup
  /\ UserEvent("type")
  /\ manualISBN' = raw
  /\ UNCHANGED <<currentISBN, isProcessingISBN, scanning, status, activeGroupId>>
  /\ Rerender
  /\ UNCHANGED <<session, Query, pendingAdds, History>>
  /\ UNCHANGED fresh

\* Enter or the Add button
SubmitManual ==
  /\ PipeFrame
  /\ UserEvent(SubmitKind)
  /\ IF Trim(manualISBN) # <<>>
     THEN /\ LET isbn == normalizeISBN(Trim(manualISBN))
             IN IF ~EmptyISBN(isbn)
                THEN currentISBN' = isbn /\ Submitted(isbn)
                ELSE UNCHANGED <<currentISBN, fresh>>
          /\ manualISBN' = <<>>
     ELSE UNCHANGED <<currentISBN, manualISBN, fresh>>
  /\ UNCHANGED <<isProcessingISBN, scanning, status, activeGroupId>>
  /\ Rerender
  /\ UNCHANGED <<session, Query, pendingAdds, History>>
  /\ GroupAtSubmit

\* GroupManager's onGroupSelect={setActiveGroupId}
SelectGroup(g) ==
  /\ PipeFrame
  /\ UNCHANGED submitGroup
  /\ UserEvent("group")
  /\ activeGroupId' = g
  /\ UNCHANGED <<currentISBN, isProcessingISBN, scanning, status, manualISBN>>
  /\ Rerender
  /\ UNCHANGED <<session, Query, pendingAdds, History>>
  /\ UNCHANGED fresh

\* fetchBookByISBN is called: the request to the primary source goes out
SendPrimary(i) ==
  /\ qStatus' = [qStatus EXCEPT ![i] = "primary"]
  /\ primaryResp' = [primaryResp EXCEPT ![i] = NoResponse]
  /\ fresh' = [fresh EXCEPT ![i] = FALSE]

\* useQuery({queryKey: ['book', isbn], enabled: !!isbn}): nothing cached for the
\* key, so fetchBookByISBN runs and sends the primary request
QueryStart ==
  /\ PipeFrame
  /\ UNCHANGED submitGroup
  /\ currentISBN # Null
  /\ qStatus[currentISBN] = "absent"
  /\ SendPrimary(currentISBN)
  /\ UNCHANGED <<uiState, session, qData, effectPending, pendingAdds, History>>
  /\ NoUserEvent

\* staleTime: 1000 * 60 * 60 - an hour after it was fetched the cached result
\* of a query is stale; no request, effect or insert stays pending for an hour
BecomesStale(i) ==
  /\ PipeFrame
  /\ UNCHANGED submitGroup
  /\ qStatus[i] = "done"
  /\ \A j \in ISBNs : qStatus[j] \notin {"primary", "secondary"}
  /\ ~effectPending
  /\ pendingAdds = <<>>
  /\ qStatus' = [qStatus EXCEPT ![i] = "stale"]
  /\ UNCHANGED <<uiState, session, qData, primaryResp, fresh, effectPending, pendingAdds,
                 History>>
  /\ NoUserEvent

\* react-query fetches a stale query again when an observer mounts on it, when
\* the window gets the focus and when the network reconnects (its defaults);
\* the data fetched before stays in place meanwhile
RefetchStale ==
  /\ PipeFrame
  /\ UNCHANGED submitGroup
  /\ currentISBN # Null
  /\ qStatus[currentISBN] = "stale"
  /\ SendPrimary(currentISBN)
  /\ UNCHANGED <<uiState, session, qData, effectPending, pendingAdds, History>>
  /\ NoUserEvent

\* a query that settles for the key being observed re-renders ISBNFetcher with
\* new data
Settled(i) ==
  effectPending' = (effectPending \/ (i = currentISBN /\ (~qData[i].found \/ qData'[i] # qData[i])))

\* lines 14-30: the primary answers; a match resolves the query, anything else
\* sends the secondary request
PrimaryResponds(i, r) ==
  /\ PipeFrame
  /\ UNCHANGED submitGroup
  /\ qStatus[i] = "primary"
  /\ everMatched' = [everMatched EXCEPT ![i] = @ \/ r.kind = "entry"]
  /\ IF PrimaryMatches(r)
     THEN /\ qStatus' = [qStatus EXCEPT ![i] = "done"]
          /\ qData' = [qData EXCEPT ![i] = PrimaryData(r)]
          /\ Settled(i)
          /\ UNCHANGED <<primaryResp, fresh>>
     ELSE /\ qStatus' = [qStatus EXCEPT ![i] = "secondary"]
          /\ primaryResp' = [primaryResp EXCEPT ![i] = r]
          /\ UNCHANGED <<qData, effectPending, fresh>>
  /\ UNCHANGED <<uiState, session, pendingAdds, books>>
  /\ NoUserEvent

\* lines 32-50: the secondary answers; a match resolves the query with its data,
\* anything else with null
SecondaryResponds(i, r) ==
  /\ PipeFrame
  /\ UNCHANGED submitGroup
  /\ qStatus[i] = "secondary"
  /\ everMatched' = [everMatched EXCEPT ![i] = @ \/ r.kind = "entry"]
  /\ qStatus' = [qStatus EXCEPT ![i] = "done"]
  /\ qData' = [qData EXCEPT ![i] = IF SecondaryMatches(r) THEN SecondaryData(r) ELSE NoData]
  /\ primaryResp' = [primaryResp EXCEPT ![i] = NoResponse]
  /\ Settled(i)
  /\ UNCHANGED <<uiState, session, fresh, pendingAdds, books>>
  /\ NoUserEvent

\* react-query drops an unobserved cache entry after gcTime (5 minutes by
\* default); no request, effect or insert stays pending that long
CacheGC(i) ==
  /\ PipeFrame
  /\ UNCHANGED submitGroup
  /\ i # currentISBN
  /\ qStatus[i] \in {"done", "stale"}
  /\ \A j \in ISBNs : qStatus[j] \notin {"primary", "secondary"}
  /\ ~effectPending
  /\ pendingAdds = <<>>
  /\ qStatus' = [qStatus EXCEPT ![i] = "absent"]
  /\ qData' = [qData EXCEPT ![i] = NoData]
  /\ UNCHANGED <<uiState, session, primaryResp, fresh, effectPending, pendingAdds, History>>
  /\ NoUserEvent

\* `isbn && activeGroupId`: the test without the bookData conjunct
ShouldAddBookNoData == currentISBN # Null /\ activeGroupId # ""

\* `isbn && bookData && activeGroupId`
ShouldAddBook == currentISBN # Null /\ bookData.found /\ activeGroupId # ""

\* the effects of a render: the cleanup of the Scanner effect when scanning is
\* off, and ISBNFetcher's effect, lines 25-47
FetcherEffect ==
  /\ PipeFrame
  /\ effectPending
  /\ effectPending' = FALSE
  /\ decoding' = (decoding /\ scanning)
  /\ IF ShouldAddBook
     THEN /\ pendingAdds' = Append(pendingAdds,
               [isbn |-> currentISBN, title |-> bookData.title,
                authors |-> bookData.authors, group_id |-> activeGroupId])
          /\ UNCHANGED uiState
     ELSE IF currentISBN # Null /\ queryError
     THEN \* onError(`No data found for ${isbn}`); onComplete()
          /\ status' = [kind |-> "noData", isbn |-> currentISBN]
          /\ currentISBN' = Null
          /\ isProcessingISBN' = FALSE
          /\ UNCHANGED <<scanning, activeGroupId, manualISBN, pendingAdds>>
     ELSE UNCHANGED <<uiState, pendingAdds>>
  /\ UNCHANGED <<cbProcessing, Query, fresh, History>>
  /\ NoUserEvent
  /\ GroupAtSubmit

RemoveAt(s, k) == SubSeq(s, 1, k - 1) \o SubSeq(s, k + 1, Len(s))

\* the insert succeeds: .then(() => { onSuccess(...); playBeep(); onComplete() })
AddBookResolves(k) ==
  /\ PipeFrame
  /\ k \in 1..Len(pendingAdds)
  /\ LET b == pendingAdds[k]
     IN /\ <<b.isbn, b.group_id>> \notin {<<x.isbn, x.group_id>> : x \in books}
        /\ books' = books \cup {b}
        /\ status' = [kind |-> "added", isbn |-> b.isbn]
  /\ pendingAdds' = RemoveAt(pendingAdds, k)
  /\ scanning' = FALSE
  /\ currentISBN' = Null
  /\ isProcessingISBN' = FALSE
  /\ UNCHANGED <<activeGroupId, manualISBN>>
  /\ Rerender
  /\ UNCHANGED <<session, Query, fresh, everMatched>>
  /\ NoUserEvent
  /\ GroupAtSubmit

\* the insert fails: .catch((err) => { onError(...); onComplete() })
AddBookRejects(k) ==
  /\ PipeFrame
  /\ k \in 1..Len(pendingAdds)
  /\ status' = [kind |-> "saveFailed", isbn |-> pendingAdds[k].isbn]
  /\ pendingAdds' = RemoveAt(pendingAdds, k)
  /\ currentISBN' = Null
  /\ isProcessingISBN' = FALSE
  /\ UNCHANGED <<scanning, activeGroupId, manualISBN>>
  /\ Rerender
  /\ UNCHANGED <<session, Query, fresh, History>>
  /\ NoUserEvent
  /\ GroupAtSubmit

NextPipe ==
  \/ ToggleScanner
  \/ \E raw \in PipeRaws : HandleScanned(raw)
  \/ \E raw \in PipeRaws : TypeManual(raw)
  \/ SubmitManual
  \/ \E g \in GroupIds : SelectGroup(g)
  \/ QueryStart
  \/ \E i \in ISBNs, r \in PipeResponses(PrimaryResponses) : PrimaryResponds(i, r)
  \/ \E i \in ISBNs, r \in PipeResponses(SecondaryResponses) : SecondaryResponds(i, r)
  \/ \E i \in ISBNs : BecomesStale(i)
  \/ RefetchStale
  \/ \E i \in ISBNs : CacheGC(i)
  \/ FetcherEffect
  \/ \E k \in 1..Len(pendingAdds) : AddBookResolves(k)
  \/ \E k \in 1..Len(pendingAdds) : AddBookRejects(k)

(***************************************************************************)
(* The recent-scans duplicate filter of the one-file App (lastScan,        *)
(* recentScans, handleScanned, addISBN) and the utility form of it.        *)
(***************************************************************************)
MaxDupEvents == 5

\* texts the decoder hands to the callback, and what the manual field holds
DupRaws == {<<"1">>, <<"2">>, <<"-">>}

DupISBNs == {normalizeISBN(r) : r \in DupRaws} \ {<<>>}

\* checkDuplicateScan(isbn, recentScans) / recentScans.has(isbn)
checkDuplicateScan(isbn, recent) == isbn \in recent

\* fetchBookByISBN of scannerUtils / App: the first source that has the book wins;
\* the second source has it whenever its request is OK
FetchUtils(rp, rs) ==
  IF PrimaryMatchesEntryOnly(rp)
  THEN BookData(IF rp.title # "" THEN rp.title ELSE "Untitled",
                IF rp.hasAuthors THEN rp.authors ELSE <<>>)
  ELSE IF rs.kind # "fail"
  THEN BookData(IF rs.title # "" THEN rs.title ELSE "Untitled",
                IF rs.hasAuthors THEN rs.authors ELSE <<>>)
  ELSE NoData

\* what a lookup can resolve to
UtilsResults == {FetchUtils(rp, rs) : rp \in PrimaryResponses, rs \in SecondaryResponses}

InitDup ==
  /\ dScanning = FALSE
  /\ recentScans = {}
  /\ lastScan = <<>>
  /\ cbRecentScans = {}
  /\ cbLastScan = <<>>
  /\ timers = [i \in DupISBNs |-> 0]
  /\ dLookups = <<>>
  /\ dItems = <<>>
  /\ scanLookups = [i \in DupISBNs |-> 0]
  /\ dEvents = 0

DupFrame == UNCHANGED <<normVars, pipeVars, jsonVars, dbVars, camVars, resVars, searchVars, selVars>>

DupEvent ==
  /\ dEvents < MaxDupEvents
  /\ dEvents' = dEvents + 1

\* the recentScans of the latest render
RecentScansOfLatestRender == recentScans

\* the recentScans the running decode callback reads: the effect's dependencies
\* are [scanning, cameraPermission], so the callback keeps the handleScanned of
\* the render that started the session
RecentScansSeenByCallback == cbRecentScans

\* setScanning((s) => !s); starting the session binds the decode callback
DupToggleScanner ==
  /\ DupFrame
  /\ DupEvent
  /\ dScanning' = ~dScanning
  /\ IF dScanning
     THEN UNCHANGED <<cbRecentScans, cbLastScan>>
     ELSE /\ cbRecentScans' = recentScans
          /\ cbLastScan' = lastScan
  /\ UNCHANGED <<recentScans, lastScan, timers, dLookups, dItems, scanLookups>>

\* the decode callback and handleScanned: the text passes when it is not the
\* last scan and its ISBN is not a recent scan; it then enters the recent scans
\* with a timeout and its lookup starts
DupDecode(raw) ==
  /\ DupFrame
  /\ DupEvent
  /\ dScanning
  /\ IF raw # <<>> /\ raw # cbLastScan
     THEN /\ lastScan' = raw
          /\ LET isbn == normalizeISBN(raw)
             IN IF isbn = <<>> \/ checkDuplicateScan(isbn, RecentScansSeenByCallback)
                THEN UNCHANGED <<recentScans, timers, dLookups, scanLookups>>
                ELSE /\ recentScans' = recentScans \cup {isbn}
                     /\ timers' = [timers EXCEPT ![isbn] = @ + 1]
                     /\ dLookups' = Append(dLookups, isbn)
                     /\ scanLookups' = [scanLookups EXCEPT ![isbn] = @ + 1]
     ELSE UNCHANGED <<lastScan, recentScans, timers, dLookups, scanLookups>>
  /\ UNCHANGED <<dScanning, cbRecentScans, cbLastScan, dItems>>

\* the timeout set by handleScanned / addToRecentScans fires after timeoutMs
DupTimerFires(i) ==
  /\ DupFrame
  /\ timers[i] > 0
  /\ timers' = [timers EXCEPT ![i] = @ - 1]
  /\ recentScans' = recentScans \ {i}
  /\ UNCHANGED <<dScanning, lastScan, cbRecentScans, cbLastScan, dLookups, dItems,
                 scanLookups, dEvents>>

\* manual entry: addISBN(manualISBN.trim()), not filtered
DupManualAdd(raw) ==
  /\ DupFrame
  /\ DupEvent
  /\ Trim(raw) # <<>>
  /\ dLookups' = Append(dLookups, Trim(raw))
  /\ UNCHANGED <<dScanning, recentScans, lastScan, cbRecentScans, cbLastScan, timers,
                 dItems, scanLookups>>

\* addISBN after `await fetchBookByISBN(isbn)`: a result becomes the first item
DupLookupResolves(k, meta) ==
  /\ DupFrame
  /\ k \in 1..Len(dLookups)
  /\ dLookups' = RemoveAt(dLookups, k)
  /\ dItems' = IF normalizeISBN(dLookups[k]) # <<>> /\ meta.found
               THEN <<dLookups[k]>> \o dItems ELSE dItems
  /\ UNCHANGED <<dScanning, recentScans, lastScan, cbRecentScans, cbLastScan, timers,
                 scanLookups, dEvents>>

NextDup ==
  \/ DupToggleScanner
  \/ \E raw \in DupRaws : DupDecode(raw)
  \/ \E i \in DupISBNs : DupTimerFires(i)
  \/ \E raw \in DupRaws : DupManualAdd(raw)
  \/ \E k \in 1..Len(dLookups), meta \in UtilsResults : DupLookupResolves(k, meta)

(***************************************************************************)
(* Export / import of the local collection (ScannerInterface state).       *)
(* A JavaScript object is a function from its own keys to values; reading  *)
(* a key it does not have gives undefined.  A JSON document is what        *)
(* JSON.stringify leaves of a value: keys whose value is undefined are     *)
(* gone.  Field values are opaque strings.                                 *)
(***************************************************************************)
MaxJsonEvents == 5

MaxGroups == 3

Undefined == "undefined"

ItemKeys == {"id", "isbn", "title", "authors", "groupId"}

GroupKeys == {"id", "name"}

\* o[k] in JavaScript
Get(o, k) == IF k \in DOMAIN o THEN o[k] ELSE Undefined

\* `GROUP-${nextIndex}` and `Group ${nextIndex}`
GroupIdOf(n) == CASE n = 1 -> "GROUP-1" [] n = 2 -> "GROUP-2" [] n = 3 -> "GROUP-3"
                  [] OTHER -> "GROUP-4"

GroupNameOf(n) == CASE n = 1 -> "Group 1" [] n = 2 -> "Group 2" [] n = 3 -> "Group 3"
                    [] OTHER -> "Group 4"

\* JSON.stringify of an object: own keys with a defined value
StringifyObject(o) == [k \in {x \in DOMAIN o : o[x] # Undefined} |-> o[k]]

StringifyArray(xs) == [n \in 1..Len(xs) |-> StringifyObject(xs[n])]

\* a JSON value in a document: an array, or null
JsonArray(xs) == [t |-> "array", v |-> xs]

JsonNull == [t |-> "null", v |-> <<>>]

\* JavaScript truthiness of a parsed value: every array is truthy, null is not
Truthy(j) == j.t = "array"

\* JSON.stringify({groups, items}, null, 2)
Stringify(gs, its) ==
  [valid |-> TRUE,
   fields |-> [k \in {"groups", "items"} |->
                 IF k = "groups" THEN JsonArray(StringifyArray(gs))
                 ELSE JsonArray(StringifyArray(its))]]

\* data.groups of a parsed document; a missing key reads undefined (falsy)
Field(doc, k) == IF k \in DOMAIN doc.fields THEN doc.fields[k] ELSE JsonNull

Item1 == [id |-> "b1", isbn |-> "1", title |-> "T1", authors |-> "A1", groupId |-> "GROUP-1"]

Item2 == [id |-> "b2", isbn |-> "2", title |-> "T2", authors |-> "A2"]

Group1 == [id |-> "GROUP-1", name |-> "Group 1"]

Group2 == [id |-> "GROUP-2", name |-> "Group 2"]

\* files the user can pick: well-formed collections, documents lacking a field
\* or holding null in it, and a file that is not JSON
HandMadeDocs ==
  { [valid |-> TRUE,
     fields |-> [k \in {"groups", "items"} |->
                   IF k = "groups" THEN JsonArray(<<Group1, Group2>>)
                   ELSE JsonArray(<<Item1, Item2>>)]],
    [valid |-> TRUE,
     fields |-> [k \in {"groups", "items"} |-> JsonArray(<<>>)]],
    [valid |-> TRUE,
     fields |-> [k \in {"items"} |-> JsonArray(<<Item1>>)]],
    [valid |-> TRUE,
     fields |-> [k \in {"groups"} |-> JsonArray(<<Group2>>)]],
    [valid |-> TRUE,
     fields |-> [k \in {"groups", "items"} |->
                   IF k = "groups" THEN JsonArray(<<Group2>>) ELSE JsonNull]],
    [valid |-> FALSE, fields |-> [k \in {} |-> JsonNull]] }

NoDoc == [valid |-> FALSE, fields |-> [k \in {} |-> JsonNull]]

\* JSON.stringify({items, groups, activeGroupId}), the value under
\* 'book-group-state-v1'
StoredDoc(its, gs, active) ==
  [items |-> StringifyArray(its), groups |-> StringifyArray(gs), activeGroupId |-> active]

InitJson ==
  /\ jItems = <<>>
  /\ jGroups = <<Group1>>
  /\ jActiveGroupId = "GROUP-1"
  /\ jExported = NoDoc
  /\ jHasExport = FALSE
  /\ jSnapshot = [groups |-> <<>>, items |-> <<>>]
  /\ jLastOp = "init"
  /\ jAlerted = FALSE
  /\ jEvents = 0
  /\ jStored = StoredDoc(<<>>, <<Group1>>, "GROUP-1")
  /\ jPc = "ready"
  /\ jLoaded = StoredDoc(<<>>, <<Group1>>, "GROUP-1")
  /\ jBefore = [items |-> <<>>, groups |-> <<Group1>>, activeGroupId |-> "GROUP-1"]

JsonFrame == UNCHANGED <<normVars, pipeVars, dupVars, dbVars, camVars, resVars, searchVars, selVars>>

JsonEvent ==
  /\ jEvents < MaxJsonEvents
  /\ jEvents' = jEvents + 1
  /\ jPc = "ready"
  /\ UNCHANGED <<jPc, jLoaded, jBefore>>

\* the effect on [items, groups, activeGroupId]: a render with a changed
\* state writes it to localStorage
Saved ==
  jStored' = IF <<jItems', jGroups', jActiveGroupId'>> # <<jItems, jGroups, jActiveGroupId>>
             THEN StoredDoc(jItems', jGroups', jActiveGroupId')
             ELSE jStored

\* {...o, k: v}
With(o, k, v) == [x \in DOMAIN o \cup {k} |-> IF x = k THEN v ELSE o[x]]

addGroup ==
  /\ JsonFrame
  /\ JsonEvent
  /\ Len(jGroups) < MaxGroups
  /\ LET nextIndex == Len(jGroups) + 1
     IN /\ jGroups' = Append(jGroups, [id |-> GroupIdOf(nextIndex),
                                      name |-> GroupNameOf(nextIndex)])
        /\ jActiveGroupId' = GroupIdOf(nextIndex)
  /\ jLastOp' = "edit"
  /\ UNCHANGED <<jItems, jExported, jHasExport, jSnapshot, jAlerted>>
  /\ Saved

renameGroup(id, name) ==
  /\ JsonFrame
  /\ JsonEvent
  /\ jGroups' = [n \in 1..Len(jGroups) |->
                   IF Get(jGroups[n], "id") = id THEN With(jGroups[n], "name", name)
                   ELSE jGroups[n]]
  /\ jLastOp' = "edit"
  /\ UNCHANGED <<jItems, jActiveGroupId, jExported, jHasExport, jSnapshot, jAlerted>>
  /\ Saved

moveItemToGroup(itemId, groupId) ==
  /\ JsonFrame
  /\ JsonEvent
  /\ jItems' = [n \in 1..Len(jItems) |->
                  IF Get(jItems[n], "id") = itemId THEN With(jItems[n], "groupId", groupId)
                  ELSE jItems[n]]
  /\ jLastOp' = "edit"
  /\ UNCHANGED <<jGroups, jActiveGroupId, jExported, jHasExport, jSnapshot, jAlerted>>
  /\ Saved

removeItem(id) ==
  /\ JsonFrame
  /\ JsonEvent
  /\ jItems' = SelectSeq(jItems, LAMBDA it : Get(it, "id") # id)
  /\ jLastOp' = "edit"
  /\ UNCHANGED <<jGroups, jActiveGroupId, jExported, jHasExport, jSnapshot, jAlerted>>
  /\ Saved

\* {...it, groupId: undefined} for the items of the group
clearGroup(id) ==
  /\ JsonFrame
  /\ JsonEvent
  /\ jItems' = [n \in 1..Len(jItems) |->
                  IF Get(jItems[n], "groupId") = id
                  THEN With(jItems[n], "groupId", Undefined) ELSE jItems[n]]
  /\ jLastOp' = "edit"
  /\ UNCHANGED <<jGroups, jActiveGroupId, jExported, jHasExport, jSnapshot, jAlerted>>
  /\ Saved

\* exportJSON: the downloaded file, and the state it was taken from
exportJSON ==
  /\ JsonFrame
  /\ JsonEvent
  /\ jExported' = Stringify(jGroups, jItems)
  /\ jHasExport' = TRUE
  /\ jSnapshot' = [groups |-> jGroups, items |-> jItems]
  /\ jLastOp' = "export"
  /\ UNCHANGED <<jItems, jGroups, jActiveGroupId, jAlerted, jStored>>

\* `data.groups && data.items` with arrays that must also be non-empty
ImportAcceptsNonEmpty(doc) ==
  /\ Truthy(Field(doc, "groups")) /\ Len(Field(doc, "groups").v) > 0
  /\ Truthy(Field(doc, "items")) /\ Len(Field(doc, "items").v) > 0

\* a check that is content with one of the two fields
ImportAcceptsEither(doc) == Truthy(Field(doc, "groups")) \/ Truthy(Field(doc, "items"))

\* `if (data.groups && data.items)`
ImportAccepts(doc) == Truthy(Field(doc, "groups")) /\ Truthy(Field(doc, "items"))

\* reader.onload of onImportJSON
ImportDocument(doc, op) ==
  /\ JsonFrame
  /\ JsonEvent
  /\ jLastOp' = op
  /\ IF ~doc.valid
     THEN \* JSON.parse throws: alert(`Invalid JSON: ...`)
          /\ jAlerted' = TRUE
          /\ UNCHANGED <<jItems, jGroups, jActiveGroupId>>
     ELSE /\ jAlerted' = FALSE
          /\ IF ImportAccepts(doc)
             THEN /\ jGroups' = Field(doc, "groups").v
                  /\ jItems' = Field(doc, "items").v
                  /\ jActiveGroupId' =
                       IF Len(Field(doc, "groups").v) > 0
                          /\ Get(Field(doc, "groups").v[1], "id") # Undefined
                       THEN Get(Field(doc, "groups").v[1], "id") ELSE "GROUP-1"
             ELSE UNCHANGED <<jItems, jGroups, jActiveGroupId>>
  /\ UNCHANGED <<jExported, jHasExport, jSnapshot>>
  /\ Saved

\* the user picks a file made by hand
onImportJSON(doc) ==
  /\ doc \in HandMadeDocs
  /\ ImportDocument(doc, "import")

\* the user picks the file of the last export
ImportExported ==
  /\ jHasExport
  /\ ImportDocument(jExported, "reimport")

\* the page is loaded again: the first render holds the initial state; its
\* effects read the stored copy and set the state from it (applied with the
\* next render), then write the state of this render
Reload ==
  /\ JsonFrame
  /\ jEvents < MaxJsonEvents
  /\ jEvents' = jEvents + 1
  /\ jBefore' = [items |-> jItems, groups |-> jGroups, activeGroupId |-> jActiveGroupId]
  /\ jItems' = <<>>
  /\ jGroups' = <<Group1>>
  /\ jActiveGroupId' = "GROUP-1"
  /\ jLoaded' = jStored
  /\ jStored' = StoredDoc(jItems', jGroups', jActiveGroupId')
  /\ jPc' = "loading"
  /\ jLastOp' = "reload"
  /\ jAlerted' = FALSE
  /\ UNCHANGED <<jExported, jHasExport, jSnapshot>>

\* the render with the state the load effect set, and its save effect
Restore ==
  /\ JsonFrame
  /\ jPc = "loading"
  /\ jPc' = "ready"
  /\ jItems' = jLoaded.items
  /\ jGroups' = jLoaded.groups
  /\ jActiveGroupId' = IF jLoaded.activeGroupId # "" THEN jLoaded.activeGroupId
                        ELSE jActiveGroupId
  /\ jStored' = StoredDoc(jItems', jGroups', jActiveGroupId')
  /\ jLastOp' = "restore"
  /\ UNCHANGED <<jExported, jHasExport, jSnapshot, jAlerted, jEvents, jLoaded, jBefore>>

NextJson ==
  \/ addGroup
  \/ \E id \in {"GROUP-1", "GROUP-2"} : renameGroup(id, "Shelf")
  \/ \E itemId \in {"b1", "b2"}, g \in {"GROUP-1", "GROUP-2"} : moveItemToGroup(itemId, g)
  \/ \E id \in {"b1", "b2"} : removeItem(id)
  \/ \E id \in {"GROUP-1", "GROUP-2"} : clearGroup(id)
  \/ exportJSON
  \/ \E doc \in HandMadeDocs : onImportJSON(doc)
  \/ ImportExported
  \/ Reload
  \/ Restore

(***************************************************************************)
(* The stored collection: tables books and groups with their constraints   *)
(* and row-level-security policies, and the hooks useBooks / useGroups     *)
(* that issue the statements.  A row keeps the columns the constraints     *)
(* and policies read; title, authors, slug and the timestamps are left     *)
(* out.  Each statement is issued with a session: a signed-in user, or     *)
(* none.                                                                   *)
(***************************************************************************)
MaxDbOps == 5

Users == {"A", "B"}

NoUser == "anon"

\* SQL NULL in a group_id column
NullId == 0

DbIsbns == {"1", "2"}

\* USING (auth.uid() = user_id): with no session auth.uid() is NULL and the
\* comparison is not true
Visible(u, row) == u # NoUser /\ row.user_id = u

\* group_id UUID REFERENCES groups(id): checked against the table itself, not
\* against the rows the session may see
ForeignKeyHolds(groups, gid) == gid = NullId \/ \E g \in groups : g.id = gid

\* UNIQUE(user_id, isbn, group_id): rows with a NULL in a column never conflict
UniqueViolated(rows, new) ==
  /\ new.group_id # NullId
  /\ \E r \in rows : /\ r.id # new.id
                     /\ r.user_id = new.user_id
                     /\ r.isbn = new.isbn
                     /\ r.group_id = new.group_id

\* ON DELETE CASCADE in the place of SET NULL
OnDeleteCascade(rows, gid) == {r \in rows : r.group_id # gid}

\* ON DELETE SET NULL, applied to every referencing row whoever owns it
OnDeleteSetNull(rows, gid) ==
  {IF r.group_id = gid THEN [r EXCEPT !.group_id = NullId] ELSE r : r \in rows}

NoRows == {}

DbResult(op, actor, ok, error, nulled) ==
  [op |-> op, actor |-> actor, ok |-> ok, error |-> error, nulled |-> nulled]

InitDb ==
  /\ dbBooks = {}
  /\ dbGroups = {}
  /\ dbNextBook = 1
  /\ dbNextGroup = 1
  /\ dbLast = DbResult("none", NoUser, TRUE, "", {})
  /\ dbOps = 0

DbFrame == UNCHANGED <<normVars, pipeVars, dupVars, jsonVars, camVars, resVars, searchVars, selVars>>

DbOp ==
  /\ dbOps < MaxDbOps
  /\ dbOps' = dbOps + 1

Sessions == Users \cup {NoUser}

\* useBooks query: select * from books where user_id = user.id [and group_id = groupId]
BooksQuery(u, groupId) ==
  IF u = NoUser THEN NoRows
  ELSE {r \in dbBooks : /\ Visible(u, r)
                        /\ r.user_id = u
                        /\ (groupId # NullId => r.group_id = groupId)}

\* useGroups query: select * from groups where user_id = user.id
GroupsQuery(u) ==
  IF u = NoUser THEN NoRows
  ELSE {g \in dbGroups : Visible(u, g) /\ g.user_id = u}

\* a mutation that takes every caller for a signed-in user
AuthenticatedAlways(u) == TRUE

\* `if (!user) throw new Error('Not authenticated')` passes
Authenticated(u) == u # NoUser

\* useBooks.addBook: group_id is book.group_id || null
addBook(u, isbn, gid) ==
  /\ DbFrame
  /\ DbOp
  /\ UNCHANGED <<dbGroups, dbNextGroup>>
  /\ LET row == [id |-> dbNextBook, user_id |-> u, isbn |-> isbn, group_id |-> gid]
     IN IF ~Authenticated(u)
        THEN /\ dbLast' = DbResult("addBook", u, FALSE, "Not authenticated", {})
             /\ UNCHANGED <<dbBooks, dbNextBook>>
        ELSE IF ForeignKeyHolds(dbGroups, gid) /\ ~UniqueViolated(dbBooks, row)
        THEN /\ dbBooks' = dbBooks \cup {row}
             /\ dbNextBook' = dbNextBook + 1
             /\ dbLast' = DbResult("addBook", u, TRUE, "", {})
        ELSE /\ dbLast' = DbResult("addBook", u, FALSE, "constraint", {})
             /\ UNCHANGED <<dbBooks, dbNextBook>>

\* useBooks.updateBook: update books set group_id = groupId where id = id
updateBook(u, id, gid) ==
  /\ DbFrame
  /\ DbOp
  /\ UNCHANGED <<dbGroups, dbNextGroup, dbNextBook>>
  /\ LET target == {r \in dbBooks : r.id = id /\ Visible(u, r)}
         new == {[r EXCEPT !.group_id = gid] : r \in target}
         rest == dbBooks \ target
     IN IF target = {}
        THEN \* .single() finds no row
             /\ dbLast' = DbResult("updateBook", u, FALSE, "no rows", {})
             /\ UNCHANGED dbBooks
        ELSE IF ForeignKeyHolds(dbGroups, gid) /\ \A n \in new : ~UniqueViolated(rest, n)
        THEN /\ dbBooks' = rest \cup new
             /\ dbLast' = DbResult("updateBook", u, TRUE, "", {})
        ELSE /\ dbLast' = DbResult("updateBook", u, FALSE, "constraint", {})
             /\ UNCHANGED dbBooks

\* useBooks.deleteBook: delete from books where id = id
deleteBook(u, id) ==
  /\ DbFrame
  /\ DbOp
  /\ dbBooks' = {r \in dbBooks : ~(r.id = id /\ Visible(u, r))}
  /\ dbLast' = DbResult("deleteBook", u, TRUE, "", {})
  /\ UNCHANGED <<dbGroups, dbNextGroup, dbNextBook>>

\* useGroups.createGroup
createGroup(u, name) ==
  /\ DbFrame
  /\ DbOp
  /\ UNCHANGED <<dbBooks, dbNextBook>>
  /\ IF ~Authenticated(u)
     THEN /\ dbLast' = DbResult("createGroup", u, FALSE, "Not authenticated", {})
          /\ UNCHANGED <<dbGroups, dbNextGroup>>
     ELSE /\ dbGroups' = dbGroups \cup {[id |-> dbNextGroup, user_id |-> u, name |-> name]}
          /\ dbNextGroup' = dbNextGroup + 1
          /\ dbLast' = DbResult("createGroup", u, TRUE, "", {})

\* useGroups.updateGroup: update groups set name = name where id = id
updateGroup(u, id, name) ==
  /\ DbFrame
  /\ DbOp
  /\ UNCHANGED <<dbBooks, dbNextBook, dbNextGroup>>
  /\ LET target == {g \in dbGroups : g.id = id /\ Visible(u, g)}
     IN IF target = {}
        THEN /\ dbLast' = DbResult("updateGroup", u, FALSE, "no rows", {})
             /\ UNCHANGED dbGroups
        ELSE /\ dbGroups' = (dbGroups \ target) \cup {[g EXCEPT !.name = name] : g \in target}
             /\ dbLast' = DbResult("updateGroup", u, TRUE, "", {})

\* useGroups.deleteGroup: delete from groups where id = id; the referencing
\* books follow by the column's referential action
deleteGroup(u, id) ==
  /\ DbFrame
  /\ DbOp
  /\ UNCHANGED <<dbNextBook, dbNextGroup>>
  /\ LET target == {g \in dbGroups : g.id = id /\ Visible(u, g)}
     IN IF target = {}
        THEN /\ dbLast' = DbResult("deleteGroup", u, TRUE, "", {})
             /\ UNCHANGED <<dbBooks, dbGroups>>
        ELSE /\ dbGroups' = dbGroups \ target
             /\ dbBooks' = OnDeleteSetNull(dbBooks, id)
             /\ dbLast' = DbResult("deleteGroup", u, TRUE, "",
                                   {r.id : r \in {x \in dbBooks : x.group_id = id}})

NextDb ==
  \/ \E u \in Sessions, isbn \in DbIsbns, gid \in 0..dbNextGroup : addBook(u, isbn, gid)
  \/ \E u \in Users, id \in 1..dbNextBook, gid \in 0..dbNextGroup : updateBook(u, id, gid)
  \/ \E u \in Users, id \in 1..dbNextBook : deleteBook(u, id)
  \/ \E u \in Sessions : createGroup(u, "n1")
  \/ \E u \in Users, id \in 1..dbNextGroup : updateGroup(u, id, "n2")
  \/ \E u \in Users, id \in 1..dbNextGroup : deleteGroup(u, id)

(***************************************************************************)
(* Camera scanner (Scanner.tsx under ScannerInterface).  Every run of the  *)
(* start/stop effect with scanning true calls start(), an async function   *)
(* that goes on by itself through the permission request, the device       *)
(* enumeration and decodeFromVideoDevice; the effect's cleanup stops the   *)
(* controls found in scannerControlsRef.  A render and the effect it       *)
(* triggers are one step.                                                  *)
(***************************************************************************)
MaxCamEvents == 4

Cameras == <<"cam1", "cam2">>

\* location is https or localhost or not; the cameras the device has
Environments == {[secure |-> TRUE, cams |-> 2], [secure |-> TRUE, cams |-> 1],
                 [secure |-> TRUE, cams |-> 0], [secure |-> FALSE, cams |-> 2]}

\* videoDevices of enumerateDevices
VideoDevices(n) == SubSeq(Cameras, 1, n)

InitCam ==
  /\ cEnv \in Environments
  /\ cScanning = FALSE
  /\ cSelectedCameraId = ""
  /\ cAvailableCameras = <<>>
  /\ cPermission = "unknown"
  /\ cStatus = ""
  /\ cStarts = <<>>
  /\ cControlsRef = 0
  /\ cTimers = 0
  /\ cPeriod = 0
  /\ cEvents = 0
  /\ cStopPressed = FALSE

CamFrame == UNCHANGED <<normVars, pipeVars, dupVars, jsonVars, dbVars, resVars, searchVars, selVars>>

CamEvent ==
  /\ cEvents < MaxCamEvents
  /\ cEvents' = cEvents + 1

\* scannerControlsRef.current.stop() of the effect's cleanup
Cleanup(starts) ==
  IF cControlsRef # 0 THEN [starts EXCEPT ![cControlsRef].active = FALSE] ELSE starts

\* what the start/stop effect does after a render that set (scanning,
\* selectedCameraId) to (ns, nsel): nothing if neither changed; otherwise the
\* cleanup of the last run, if that run had scanning true, and then, if
\* scanning is true, start() up to its first await
StartStopEffect(ns, nsel) ==
  LET changed == ns # cScanning \/ nsel # cSelectedCameraId
      cleaned == IF changed /\ cScanning THEN Cleanup(cStarts) ELSE cStarts
      np == IF ns /\ ~cScanning THEN cPeriod + 1 ELSE cPeriod
      new == [pc |-> IF cEnv.secure THEN "permission" ELSE "failed",
              sel |-> nsel, device |-> "", period |-> np, active |-> FALSE]
  IN /\ cScanning' = ns
     /\ cSelectedCameraId' = nsel
     /\ cPeriod' = np
     /\ IF changed /\ ns
        THEN /\ cStarts' = Append(cleaned, new)
             /\ cStatus' = IF cEnv.secure THEN "Requesting camera permission..."
                           ELSE "Camera requires HTTPS"
        ELSE /\ cStarts' = cleaned
             /\ UNCHANGED cStatus

\* permission check on load: navigator.permissions.query
CheckCameraPermission(state) ==
  /\ CamFrame
  /\ cPermission = "unknown"
  /\ cStarts = <<>>
  /\ cEvents = 0
  /\ cPermission' = state
  /\ UNCHANGED <<cEnv, cScanning, cSelectedCameraId, cAvailableCameras, cStatus, cStarts,
                 cControlsRef, cTimers, cPeriod, cEvents, cStopPressed>>

\* the Start/Stop button: setScanning((s) => !s); disabled when the permission
\* is denied and the scanner is off.  cStopPressed records that the press was
\* one of Stop, until Start is pressed.
ToggleScanning ==
  /\ CamFrame
  /\ CamEvent
  /\ ~(cPermission = "denied" /\ ~cScanning)
  /\ StartStopEffect(~cScanning, cSelectedCameraId)
  /\ cStopPressed' = cScanning
  /\ UNCHANGED <<cEnv, cAvailableCameras, cPermission, cControlsRef, cTimers>>

\* handleCameraChange, from the Switch Camera button or the select (shown when
\* more than one camera is known)
handleCameraChange(cameraId) ==
  /\ CamFrame
  /\ CamEvent
  /\ Len(cAvailableCameras) > 1
  /\ \E n \in 1..Len(cAvailableCameras) : cAvailableCameras[n] = cameraId
  /\ cameraId # cSelectedCameraId
  /\ IF cScanning
     THEN /\ StartStopEffect(FALSE, cameraId)
          /\ cTimers' = cTimers + 1
     ELSE /\ StartStopEffect(cScanning, cameraId)
          /\ UNCHANGED cTimers
  /\ UNCHANGED <<cEnv, cAvailableCameras, cPermission, cControlsRef, cStopPressed>>

\* setTimeout(() => setScanning(true), 100)
RestartTimerFires ==
  /\ CamFrame
  /\ cTimers > 0
  /\ cTimers' = cTimers - 1
  /\ StartStopEffect(TRUE, cSelectedCameraId)
  /\ UNCHANGED <<cEnv, cAvailableCameras, cPermission, cControlsRef, cEvents, cStopPressed>>

\* a running session decodes a barcode; the parent's handleScanned sets
\* scanning to false
SessionDecodes(i) ==
  /\ CamFrame
  /\ CamEvent
  /\ i \in 1..Len(cStarts)
  /\ cStarts[i].active
  /\ StartStopEffect(FALSE, cSelectedCameraId)
  /\ UNCHANGED <<cEnv, cAvailableCameras, cPermission, cControlsRef, cTimers, cStopPressed>>

\* a requestCameraPermission that reports nothing to the parent
PermissionKept(outcome, current) == current

\* onCameraPermissionChange('granted') / onCameraPermissionChange('denied')
PermissionAfter(outcome, current) ==
  IF outcome = "granted" THEN "granted"
  ELSE IF outcome = "NotAllowedError" THEN "denied"
  ELSE current

\* getUserMedia of requestCameraPermission settles
PermissionSettles(i, outcome) ==
  /\ CamFrame
  /\ i \in 1..Len(cStarts)
  /\ cStarts[i].pc = "permission"
  /\ outcome \in (IF cEnv.cams = 0 THEN {"NotFoundError"} ELSE {"granted", "NotAllowedError"})
  /\ cPermission' = PermissionAfter(outcome, cPermission)
  /\ IF outcome = "granted"
     THEN /\ cStatus' = "Camera permission granted!"
          /\ cStarts' = [cStarts EXCEPT ![i].pc = "enumerate"]
     ELSE IF outcome = "NotAllowedError"
     THEN /\ cStatus' = "Camera permission denied"
          /\ cStarts' = [cStarts EXCEPT ![i].pc = "failed"]
     ELSE /\ cStatus' = "No camera found"
          /\ cStarts' = [cStarts EXCEPT ![i].pc = "failed"]
  /\ UNCHANGED <<cEnv, cScanning, cSelectedCameraId, cAvailableCameras, cControlsRef,
                 cTimers, cPeriod, cEvents, cStopPressed>>

\* deviceId: the selected camera of the render that started this run, else the
\* second camera, else the first
ChooseDevice(sel, devices) ==
  IF sel # "" THEN sel
  ELSE IF Len(devices) > 1 THEN devices[2]
  ELSE IF Len(devices) > 0 THEN devices[1]
  ELSE ""

\* enumerateDevices settles; start() goes on to the call of decodeFromVideoDevice
DevicesEnumerated(i) ==
  /\ CamFrame
  /\ i \in 1..Len(cStarts)
  /\ cStarts[i].pc = "enumerate"
  /\ cAvailableCameras' = VideoDevices(cEnv.cams)
  /\ LET deviceId == ChooseDevice(cStarts[i].sel, VideoDevices(cEnv.cams))
     IN IF deviceId = ""
        THEN /\ cStatus' = "No camera found"
             /\ cStarts' = [cStarts EXCEPT ![i].pc = "failed"]
        ELSE /\ cStatus' = "Starting camera..."
             /\ cStarts' = [cStarts EXCEPT ![i].pc = "decode", ![i].device = deviceId]
  /\ UNCHANGED <<cEnv, cScanning, cSelectedCameraId, cPermission, cControlsRef,
                 cTimers, cPeriod, cEvents, cStopPressed>>

\* decodeFromVideoDevice settles: the session runs and its controls are put in
\* scannerControlsRef, or it throws and the catch reports the error
DecodeSettles(i, ok) ==
  /\ CamFrame
  /\ i \in 1..Len(cStarts)
  /\ cStarts[i].pc = "decode"
  /\ IF ok
     THEN /\ cStarts' = [cStarts EXCEPT ![i].pc = "done", ![i].active = TRUE]
          /\ cControlsRef' = i
          /\ cStatus' = "Scanner active"
     ELSE /\ cStarts' = [cStarts EXCEPT ![i].pc = "failed"]
          /\ cStatus' = "Camera error"
          /\ UNCHANGED cControlsRef
  /\ UNCHANGED <<cEnv, cScanning, cSelectedCameraId, cAvailableCameras, cPermission,
                 cTimers, cPeriod, cEvents, cStopPressed>>

MaxStarts == MaxCamEvents + 1

NextCam ==
  \/ \E state \in {"granted", "denied", "prompt"} : CheckCameraPermission(state)
  \/ ToggleScanning
  \/ \E n \in 1..Len(Cameras) : handleCameraChange(Cameras[n])
  \/ RestartTimerFires
  \/ \E i \in 1..MaxStarts : SessionDecodes(i)
  \/ \E i \in 1..MaxStarts, outcome \in {"granted", "NotAllowedError", "NotFoundError"} :
       PermissionSettles(i, outcome)
  \/ \E i \in 1..MaxStarts : DevicesEnumerated(i)
  \/ \E i \in 1..MaxStarts, ok \in BOOLEAN : DecodeSettles(i, ok)

(***************************************************************************)
(* The ISBN resolver as a function of what the two sources answer: the     *)
(* fetchBookByISBN of hooks/useBookByISBN.ts, which ISBNFetcher uses, and  *)
(* the fetchBookByISBN of utils/scannerUtils.ts.                           *)
(***************************************************************************)
\* useBookByISBN.ts, lines 8-51
fetchBookByISBN(rp, rs) ==
  IF PrimaryMatches(rp) THEN PrimaryData(rp)
  ELSE IF SecondaryMatches(rs) THEN SecondaryData(rs)
  ELSE NoData

Resolvers == {"hook", "utils"}

InitRes ==
  /\ rImpl \in Resolvers
  /\ rPrimary \in PrimaryResponses
  /\ rSecondary \in SecondaryResponses
  /\ rResult = NoData
  /\ rPc = "called"

IdleRes ==
  /\ InitRes
  /\ rImpl = "hook"
  /\ rPrimary.kind = "fail"
  /\ rSecondary.kind = "fail"

ResFrame == UNCHANGED <<normVars, pipeVars, dupVars, jsonVars, dbVars, camVars, searchVars, selVars>>

ResolverReturns ==
  /\ ResFrame
  /\ rPc = "called"
  /\ rPc' = "returned"
  /\ rResult' = IF rImpl = "hook" THEN fetchBookByISBN(rPrimary, rSecondary)
                ELSE FetchUtils(rPrimary, rSecondary)
  /\ UNCHANGED <<rImpl, rPrimary, rSecondary>>

NextRes == ResolverReturns

(***************************************************************************)
(* Open Library search: the title and author fields of OpenLibrarySearch,  *)
(* the debounce of useOpenLibrarySearch and its query                      *)
(***************************************************************************)
MaxSearchEvents == 4

SearchTitles == {<<>>, <<" ">>, <<"a">>}

SearchAuthors == {<<>>, <<"x">>}

SearchParams == [title : SearchTitles, author : SearchAuthors]

NoTimer == [set |-> FALSE, title |-> <<>>, author |-> <<>>]

\* useState<SearchParams>({}): neither title nor author is defined
NoParams == [set |-> FALSE, title |-> <<>>, author |-> <<>>]

Params(title, author) == [title |-> title, author |-> author]

Pending(title, author) == [set |-> TRUE, title |-> title, author |-> author]

\* title?.trim() || author?.trim() is falsy
Blank(title, author) == Trim(title) = <<>> /\ Trim(author) = <<>>

\* enabled: !!(debouncedParams.title?.trim() || debouncedParams.author?.trim())
Enabled(p) == p.set /\ ~Blank(p.title, p.author)

\* the query the hook observes
Observed(k) == Enabled(sDebounced) /\ k = Params(sDebounced.title, sDebounced.author)

\* retry: 2 of the query client
SearchRetries == 2

InitSearch ==
  /\ sTitle = <<>>
  /\ sAuthor = <<>>
  /\ sTimer = Pending(<<>>, <<>>)
  /\ sTimerOld = FALSE
  /\ sDebounced = NoParams
  /\ sQuery = [k \in SearchParams |-> "idle"]
  /\ sFailures = [k \in SearchParams |-> 0]
  /\ sHeld = {}
  /\ sEvents = 0

SearchFrame == UNCHANGED <<normVars, pipeVars, dupVars, jsonVars, dbVars, camVars, resVars, selVars>>

\* the fields changed: the effect's cleanup clears the timer, the effect sets a
\* new one for the parameters of this render
ParamsChange(title, author) ==
  /\ sEvents < MaxSearchEvents
  /\ sEvents' = sEvents + 1
  /\ sTitle' = title
  /\ sAuthor' = author
  /\ sTimer' = Pending(title, author)
  /\ sTimerOld' = FALSE
  /\ UNCHANGED <<sDebounced, sQuery, sFailures, sHeld>>

\* dispatch({type: 'SET_TITLE', payload: value})
SetTitle(value) ==
  /\ SearchFrame
  /\ value # sTitle
  /\ ParamsChange(value, sAuthor)

\* dispatch({type: 'SET_AUTHOR', payload: value})
SetAuthor(value) ==
  /\ SearchFrame
  /\ value # sAuthor
  /\ ParamsChange(sTitle, value)

\* the 500 ms timer fires: setDebouncedParams(params); the query key follows, and
\* an enabled query without data is fetched (data stays fresh for the 5 minutes
\* of staleTime, longer than the sessions followed here)
DebounceFires ==
  /\ SearchFrame
  /\ sTimer.set
  /\ sTimer' = NoTimer
  /\ sTimerOld' = FALSE
  /\ sDebounced' = sTimer
  /\ sHeld' = sHeld \cup {Params(sTimer.title, sTimer.author)}
  /\ LET k == Params(sTimer.title, sTimer.author)
     IN  IF Enabled(sTimer) /\ ~Observed(k) /\ sQuery[k] \in {"idle", "error"}
         THEN /\ sQuery' = [sQuery EXCEPT ![k] = "fetching"]
              /\ sFailures' = [sFailures EXCEPT ![k] = 0]
         ELSE UNCHANGED <<sQuery, sFailures>>
  /\ UNCHANGED <<sTitle, sAuthor, sEvents>>

\* searchOpenLibrary settles: docs, or a throw on a failed request, which the
\* query retries while it is observed
SearchResponds(k, ok) ==
  /\ SearchFrame
  /\ sQuery[k] = "fetching"
  /\ IF ok
     THEN /\ sQuery' = [sQuery EXCEPT ![k] = "success"]
          /\ UNCHANGED sFailures
     ELSE IF Observed(k) /\ sFailures[k] < SearchRetries
     THEN /\ sQuery' = [sQuery EXCEPT ![k] = "retrying"]
          /\ sFailures' = [sFailures EXCEPT ![k] = @ + 1]
     ELSE /\ sQuery' = [sQuery EXCEPT ![k] = "error"]
          /\ UNCHANGED sFailures
  /\ sTimerOld' = IF ok THEN sTimerOld ELSE sTimer.set
  /\ UNCHANGED <<sTitle, sAuthor, sTimer, sDebounced, sHeld, sEvents>>

\* the retry delay is over: the request is made again, unless the query lost
\* its observer meanwhile. The delay is a second or more, so a debounce timer
\* that was pending when the wait began has fired by now
RetryFires(k) ==
  /\ SearchFrame
  /\ sQuery[k] = "retrying"
  /\ ~sTimerOld
  /\ sQuery' = [sQuery EXCEPT ![k] = IF Observed(k) THEN "fetching" ELSE "error"]
  /\ UNCHANGED <<sTitle, sAuthor, sTimer, sTimerOld, sDebounced, sFailures, sHeld, sEvents>>

NextSearch ==
  \/ \E value \in SearchTitles : SetTitle(value)
  \/ \E value \in SearchAuthors : SetAuthor(value)
  \/ DebounceFires
  \/ \E k \in SearchParams, ok \in BOOLEAN : SearchResponds(k, ok)
  \/ \E k \in SearchParams : RetryFires(k)

(***************************************************************************)
(* Open Library search: handleSelectionChange of OpenLibrarySearch.        *)
(* A string is a sequence of tokens, the empty sequence standing for a     *)
(* missing (falsy) value; an array is a sequence of strings.               *)
(***************************************************************************)
MaxSelections == 2

\* the results of a search: Open Library keys name one record each, so the
\* keys of the two results differ
FirstWorks ==
  [isbn : {<<>>, << <<"9780000000001">> >>, << <<"9780000000001">>, <<"9780000000002">> >>},
   edition_key : {<<>>, << <<"OL1M">> >>, << <<"OL1M">>, <<"OL2M">> >>},
   cover_edition_key : {<<>>, <<"OL3M">>},
   key : {<<>>, <<"/works/", "OL1W">>}]

SecondWorks ==
  [isbn : {<<>>, << <<"9780000000003">> >>},
   edition_key : {<<>>, << <<"OL4M">> >>},
   cover_edition_key : {<<>>, <<"OL5M">>},
   key : {<<>>, <<"OL2W">>}]

NoKey == <<>>

UnknownKey == <<"unknown">>

\* a?.[0]
FirstOf(a) == IF a = <<>> THEN <<>> ELSE a[1]

\* a || b
Or(a, b) == IF a # <<>> THEN a ELSE b

\* s.replace(tok, '')
RECURSIVE RemoveFirst(_, _)
RemoveFirst(s, tok) ==
  IF s = <<>> THEN <<>>
  ELSE IF Head(s) = tok THEN Tail(s)
  ELSE <<Head(s)>> \o RemoveFirst(Tail(s), tok)

\* work.edition_key?.[0] || work.cover_edition_key || work.key || 'unknown'
getWorkKey(work) ==
  Or(FirstOf(work.edition_key), Or(work.cover_edition_key, Or(work.key, UnknownKey)))

\* the filter of the options: !!(edition_key?.[0] || cover_edition_key || key)
Listed(work) ==
  Or(FirstOf(work.edition_key), Or(work.cover_edition_key, work.key)) # <<>>

\* works.find(w => w.edition_key?.[0] === key || w.cover_edition_key === key || w.key === key)
Matches(w, key) ==
  FirstOf(w.edition_key) = key \/ w.cover_edition_key = key \/ w.key = key

FindWork(works, key) ==
  LET hits == {i \in 1..Len(works) : Matches(works[i], key)}
  IN  IF hits = {} THEN 0 ELSE CHOOSE i \in hits : \A j \in hits : i <= j

\* edition_key[0], else cover_edition_key, else the work key without '/works/'
EditionKey(work) ==
  IF work.edition_key # <<>> THEN work.edition_key[1]
  ELSE IF work.cover_edition_key # <<>> THEN work.cover_edition_key
  ELSE IF work.key # <<>> THEN RemoveFirst(work.key, "/works/")
  ELSE <<>>

\* the edition key before the ISBN
EditionKeyFirst(work) == Or(EditionKey(work), Or(FirstOf(work.isbn), <<"UNKNOWN">>))

\* const identifier = isbn || editionKey || 'UNKNOWN'
Identifier(work) == Or(FirstOf(work.isbn), Or(EditionKey(work), <<"UNKNOWN">>))

InitSel ==
  /\ selWorks \in {<<w1, w2>> : w1 \in FirstWorks, w2 \in SecondWorks}
  /\ selectedWorkKey = NoKey
  /\ selCalls = <<>>
  /\ selEvents = 0

IdleSel ==
  /\ selWorks = <<>>
  /\ selectedWorkKey = NoKey
  /\ selCalls = <<>>
  /\ selEvents = 0

SelFrame == UNCHANGED <<normVars, pipeVars, dupVars, jsonVars, dbVars, camVars, resVars, searchVars>>

\* the option of result i is chosen: handleSelectionChange(getWorkKey(works[i]))
handleSelectionChange(i) ==
  /\ SelFrame
  /\ selEvents < MaxSelections
  /\ selEvents' = selEvents + 1
  /\ i \in 1..Len(selWorks)
  /\ Listed(selWorks[i])
  /\ LET key == getWorkKey(selWorks[i])
         found == FindWork(selWorks, key)
     IN  IF found = 0
         THEN /\ selectedWorkKey' = key
              /\ UNCHANGED selCalls
         ELSE LET work == selWorks[found]
              IN  IF EditionKey(work) = <<>> /\ FirstOf(work.isbn) = <<>>
                  THEN /\ selectedWorkKey' = key
                       /\ UNCHANGED selCalls
                  ELSE /\ selectedWorkKey' = NoKey
                       /\ selCalls' = Append(selCalls,
                            [chosen |-> i,
                             identifier |-> Identifier(work),
                             editionKey |-> EditionKey(work)])
  /\ UNCHANGED selWorks

NextSel == \E i \in 1..2 : handleSelectionChange(i)

(***************************************************************************)
(* Specifications                                                          *)
(***************************************************************************)
\* the camera at rest on an https page with two cameras
IdleCam == InitCam /\ cEnv = [secure |-> TRUE, cams |-> 2]

\* every subsystem but the normalisation at rest
InitOthers == InitPipe /\ InitDup /\ InitJson /\ InitDb /\ IdleCam /\ IdleRes /\ InitSearch /\ IdleSel

InitNorm == InitNormOnly /\ InitOthers

NextNorm == ScannerHandleScanned

SpecNorm == InitNorm /\ [][NextNorm]_vars

InitPipeline == IdleNorm /\ InitOthers

SpecPipe == InitPipeline /\ [][NextPipe]_vars

\* what goes on without the user: a request that is due is sent, a request sent
\* is answered, a pending effect runs, an insert under way settles
PipeFairness ==
  /\ WF_vars(QueryStart)
  /\ \A i \in ISBNs : WF_vars(\E r \in PipeResponses(PrimaryResponses) : PrimaryResponds(i, r))
  /\ \A i \in ISBNs : WF_vars(\E r \in PipeResponses(SecondaryResponses) : SecondaryResponds(i, r))
  /\ WF_vars(FetcherEffect)
  /\ WF_vars(\E k \in 1..Len(pendingAdds) : AddBookResolves(k) \/ AddBookRejects(k))

SpecPipeLive == InitPipeline /\ [][NextPipe]_vars /\ PipeFairness

InitDupFilter == IdleNorm /\ InitOthers

SpecDup == InitDupFilter /\ [][NextDup]_vars

InitJsonOnly == IdleNorm /\ InitOthers

SpecJson == InitJsonOnly /\ [][NextJson]_vars

InitDbOnly == IdleNorm /\ InitOthers

SpecDb == InitDbOnly /\ [][NextDb]_vars

InitCamOnly == IdleNorm /\ InitPipe /\ InitDup /\ InitJson /\ InitDb /\ InitCam /\ IdleRes /\ InitSearch /\ IdleSel

SpecCam == InitCamOnly /\ [][NextCam]_vars

InitResOnly == IdleNorm /\ InitPipe /\ InitDup /\ InitJson /\ InitDb /\ IdleCam /\ InitRes /\ InitSearch /\ IdleSel

SpecRes == InitResOnly /\ [][NextRes]_vars

InitSearchOnly == IdleNorm /\ InitOthers

SpecSearch == InitSearchOnly /\ [][NextSearch]_vars

InitSelOnly ==
  /\ IdleNorm /\ InitPipe /\ InitDup /\ InitJson /\ InitDb /\ IdleCam /\ IdleRes
  /\ InitSearch /\ InitSel

SpecSel == InitSelOnly /\ [][NextSel]_vars

(***************************************************************************)
(* C1: for every raw string s, normalizeISBN(s) is s with every character  *)
(* other than a digit, 'X' or 'x' removed and the remaining characters in  *)
(* their original order; the result holds only digits, 'X' and 'x'.        *)
(***************************************************************************)
IsIsbnChar(c) == c \in IsbnChars

C1_NormalizeStrips ==
  nPc \in {"dropped", "emitted"} =>
    /\ nOut = SelectSeq(nRaw, IsIsbnChar)
    /\ \A i \in 1..Len(nOut) : nOut[i] \in Digits \cup {"X", "x"}

\* a raw string with two separated non-ISBN characters and an 'x' was normalised
C1_Witness ==
  /\ nPc = "emitted"
  /\ nRaw = <<"-", "x", "a">>
  /\ nOut = <<"x">>

(***************************************************************************)
(* C2: fetchBookByISBN asks the primary source first and the secondary     *)
(* only if the primary request failed or returned no match; when the       *)
(* primary returns a match the secondary is never contacted.  Stated on    *)
(* the fetch in flight: a request to the secondary source is out only      *)
(* after a primary answer that was a failure or held no entry.             *)
(***************************************************************************)
C2_SecondaryOnlyAfterPrimaryMiss ==
  \A i \in ISBNs :
    qStatus[i] = "secondary" => primaryResp[i].kind \in {"fail", "none"}

(***************************************************************************)
(* C3: an ISBN for which neither source ever returned a match gets no      *)
(* Book: addBook is never called for it (no insert is ever in flight for   *)
(* it) and no stored book carries it.                                      *)
(***************************************************************************)
C3_NoBookForUnresolvable ==
  \A i \in ISBNs :
    ~everMatched[i] =>
      /\ \A k \in 1..Len(pendingAdds) : pendingAdds[k].isbn # i
      /\ \A b \in books : b.isbn # i

\* a scanned ISBN was looked up, both sources had nothing, and ISBNFetcher has
\* handled the result
C3_Witness ==
  /\ currentISBN # Null
  /\ isProcessingISBN
  /\ qStatus[currentISBN] = "done"
  /\ ~qData[currentISBN].found
  /\ ~everMatched[currentISBN]
  /\ ~effectPending

(***************************************************************************)
(* C4: when neither source yields a match for the submitted ISBN, the      *)
(* error callback runs and the status line shows the no-data message for   *)
(* that ISBN.  Stated on the state after ISBNFetcher has handled the       *)
(* result: a not-found lookup is never left unsignalled.                   *)
(***************************************************************************)
C4_NotFoundSignalled ==
  (/\ currentISBN # Null
   /\ qStatus[currentISBN] = "done"
   /\ ~qData[currentISBN].found
   /\ ~effectPending)
  => status = [kind |-> "noData", isbn |-> currentISBN]

(***************************************************************************)
(* C5: a scan of an ISBN that is still in the recent-scans set triggers no *)
(* metadata lookup (and so adds no item), also when both scans come from   *)
(* the decode callback of one running session: no step starts a            *)
(* scan-triggered lookup for an ISBN that is in recentScans.               *)
(***************************************************************************)
C5_NoLookupWhileRecent ==
  [][\A i \in DupISBNs : i \in recentScans => scanLookups'[i] = scanLookups[i]]_vars

(***************************************************************************)
(* C6: exporting the state and then importing that same document gives     *)
(* the groups and items held at the export: the same number of each, in    *)
(* the same order, every field reading the same value, empty lists         *)
(* included.                                                               *)
(***************************************************************************)
SameObjects(xs, ys, keys) ==
  /\ Len(xs) = Len(ys)
  /\ \A n \in 1..Len(xs) : \A k \in keys : Get(xs[n], k) = Get(ys[n], k)

C6_ExportImportRoundTrip ==
  jLastOp = "reimport" =>
    /\ SameObjects(jGroups, jSnapshot.groups, GroupKeys)
    /\ SameObjects(jItems, jSnapshot.items, ItemKeys)

\* the exported state held a renamed group and an item whose group had been
\* cleared (groupId: undefined); it was changed after the export, and the
\* exported file was then imported
C6_Witness ==
  /\ jLastOp = "reimport"
  /\ Len(jSnapshot.items) > 0
  /\ \E n \in 1..Len(jSnapshot.items) :
       /\ "groupId" \in DOMAIN jSnapshot.items[n]
       /\ jSnapshot.items[n]["groupId"] = Undefined
       /\ "groupId" \notin DOMAIN jItems[n]

\* the same with empty lists
C6_WitnessEmpty ==
  /\ jLastOp = "reimport"
  /\ jSnapshot.items = <<>>
  /\ jSnapshot.groups = <<>>

(***************************************************************************)
(* C7: no two stored books have the same (owner, identifier, group), a     *)
(* null group included.                                                    *)
(***************************************************************************)
SameTriple(a, b) == a.user_id = b.user_id /\ a.isbn = b.isbn /\ a.group_id = b.group_id

C7_NoDuplicateTriple ==
  \A a \in dbBooks : \A b \in dbBooks : a.id # b.id => ~SameTriple(a, b)

\* what the constraint does enforce: no duplicate among books that have a group
UniqueAmongGrouped ==
  \A a \in dbBooks : \A b \in dbBooks :
    (a.id # b.id /\ a.group_id # NullId) => ~SameTriple(a, b)

\* two books of one owner with the same identifier and no group are stored
C7_DuplicateStored ==
  \E a \in dbBooks : \E b \in dbBooks :
    a.id # b.id /\ SameTriple(a, b) /\ a.group_id = NullId

(***************************************************************************)
(* C8: deleting a group deletes no book: the books that referenced it are  *)
(* still stored, with a null group; no book references it any more; every  *)
(* other book is unchanged.                                                *)
(***************************************************************************)
BookIdsOf(rows) == {r.id : r \in rows}

DeleteGroupKeepsBooks ==
  dbGroups' # dbGroups /\ dbLast'.op = "deleteGroup" =>
    LET gone == {g.id : g \in dbGroups \ dbGroups'}
    IN /\ BookIdsOf(dbBooks') = BookIdsOf(dbBooks)
       /\ Cardinality(dbBooks') = Cardinality(dbBooks)
       /\ \A r \in dbBooks :
            IF r.group_id \in gone
            THEN [r EXCEPT !.group_id = NullId] \in dbBooks'
            ELSE r \in dbBooks'
       /\ \A r \in dbBooks' : r.group_id \notin gone

C8_DeleteGroupKeepsBooks == [][DeleteGroupKeepsBooks]_vars

\* a group that books referenced has just been deleted; those books are stored
\* with a null group next to a book of another group
C8_Witness ==
  /\ dbLast.op = "deleteGroup"
  /\ dbLast.nulled # {}
  /\ \A id \in dbLast.nulled : \E r \in dbBooks : r.id = id /\ r.group_id = NullId
  /\ \E r \in dbBooks : r.group_id # NullId

(***************************************************************************)
(* C9: the owner of a book or group is the signed-in user who created it   *)
(* and never changes; no query of a user returns a row of another user,    *)
(* and no statement issued by a user changes or removes a row of another   *)
(* user.                                                                   *)
(***************************************************************************)
OwnerSetAtCreation ==
  /\ \A r \in dbBooks' : r.id \notin BookIdsOf(dbBooks) => r.user_id = dbLast'.actor
  /\ \A g \in dbGroups' : (\A h \in dbGroups : h.id # g.id) => g.user_id = dbLast'.actor

OwnerNeverChanges ==
  /\ \A r \in dbBooks : \A q \in dbBooks' : r.id = q.id => r.user_id = q.user_id
  /\ \A g \in dbGroups : \A h \in dbGroups' : g.id = h.id => g.user_id = h.user_id

ReadsOnlyOwnRows ==
  /\ \A u \in Sessions : \A gid \in 0..dbNextGroup :
       \A r \in BooksQuery(u, gid) : r.user_id = u
  /\ \A u \in Sessions : \A g \in GroupsQuery(u) : g.user_id = u

WritesOnlyOwnRows ==
  /\ \A r \in dbBooks : r.user_id # dbLast'.actor => r \in dbBooks'
  /\ \A g \in dbGroups : g.user_id # dbLast'.actor => g \in dbGroups'

C9_OwnerOnlyAccess ==
  [][OwnerSetAtCreation /\ OwnerNeverChanges /\ ReadsOnlyOwnRows /\ WritesOnlyOwnRows]_vars

\* the parts of C9 that hold: ownership, and the reads
C9_OwnershipAndReads ==
  [][OwnerSetAtCreation /\ OwnerNeverChanges /\ ReadsOnlyOwnRows]_vars

\* a user has deleted a group of theirs and a book of another user lost its group
C9_ForeignBookChanged ==
  /\ dbLast.op = "deleteGroup"
  /\ \E r \in dbBooks : r.id \in dbLast.nulled /\ r.user_id # dbLast.actor

(***************************************************************************)
(* C10: at most one decode session is active at any time, and at most one  *)
(* is started for each toggle-on period.                                   *)
(***************************************************************************)
ActiveSessions == {i \in 1..Len(cStarts) : cStarts[i].active}

\* calls of start() that got their decode session running
StartedSessions == {i \in 1..Len(cStarts) : cStarts[i].pc = "done"}

AtMostOneActive == Cardinality(ActiveSessions) <= 1

AtMostOnePerPeriod ==
  \A i \in StartedSessions : \A j \in StartedSessions :
    i # j => cStarts[i].period # cStarts[j].period

C10_OneDecodeSession == AtMostOneActive /\ AtMostOnePerPeriod

\* two decode sessions run at once
C10_TwoSessionsActive == Cardinality(ActiveSessions) >= 2

\* a decode session runs while scanning is false
C10_SessionWhileOff == ~cScanning /\ cTimers = 0 /\ ActiveSessions # {}

(***************************************************************************)
(* C11: once scanning is false and no camera start-up is still on its way, *)
(* no decode session is running (so none can emit decoded text).           *)
(***************************************************************************)
PendingStarts == {i \in 1..Len(cStarts) : cStarts[i].pc \in {"permission", "enumerate", "decode"}}

C11_StoppedWhenOff == (~cScanning /\ PendingStarts = {}) => ActiveSessions = {}

(***************************************************************************)
(* C12: after a lookup that failed or found nothing, and after a failed    *)
(* insert, the pipeline gets back to idle: currentISBN is null and         *)
(* isProcessingISBN is false.                                              *)
(***************************************************************************)
LookupFailed == currentISBN # Null /\ qStatus[currentISBN] = "done" /\ ~bookData.found

PipelineIdle == currentISBN = Null /\ ~isProcessingISBN

C12_FailureRecovers == LookupFailed ~> PipelineIdle

\* the part that holds: the step that reports a failed insert ends in idle
C12_SaveFailureRecovers ==
  [][(Len(pendingAdds') < Len(pendingAdds) /\ status'.kind = "saveFailed") => PipelineIdle']_vars

\* a scan was not found, nothing is left to run, and the pipeline is not idle
C12_StuckAfterNotFound ==
  /\ LookupFailed
  /\ isProcessingISBN
  /\ ~effectPending
  /\ pendingAdds = <<>>

(***************************************************************************)
(* C13: for one submission of an ISBN each of the two sources gets at most *)
(* one request; no lookup is sent again unless the user submits again.     *)
(***************************************************************************)
\* a request goes to the primary source for i in this step
PrimaryRequestSent(i) == qStatus'[i] = "primary" /\ qStatus[i] # "primary"

\* a request goes to the secondary source for i in this step
SecondaryRequestSent(i) == qStatus'[i] = "secondary" /\ qStatus[i] # "secondary"

C13_OneRequestPerSubmission ==
  [][\A i \in ISBNs : /\ PrimaryRequestSent(i) => fresh[i]
                      /\ SecondaryRequestSent(i) => qStatus[i] = "primary"]_vars

\* what retry: 2 leaves untouched: fetchBookByISBN never throws, so within one
\* run of the query the secondary request follows the primary request and no
\* request follows the secondary one
C13_OneRequestPerRun ==
  [][\A i \in ISBNs : /\ PrimaryRequestSent(i) => qStatus[i] \in {"absent", "stale"}
                      /\ SecondaryRequestSent(i) => qStatus[i] = "primary"]_vars

\* a lookup that found nothing, refetched with nothing submitted in between
C13_ReissuedWithoutUser ==
  \E i \in ISBNs : /\ currentISBN = i
                   /\ qStatus[i] \in {"primary", "secondary"}
                   /\ ~fresh[i]
                   /\ ~qData[i].found
                   /\ isProcessingISBN
                   /\ status.kind = "none"

(***************************************************************************)
(* C14: when a source returns a match the result has the match's title,    *)
(* or "Untitled" if the match has none, and the match's authors, or the    *)
(* empty list if it has none; for the primary and the secondary source.    *)
(***************************************************************************)
\* the source whose match the resolver is to return: the primary if it has an
\* entry, otherwise the secondary if it has one
HasEntry(r) == r.kind = "entry"

ExpectedResult(r) ==
  BookData(IF r.title # "" THEN r.title ELSE "Untitled",
           IF r.hasAuthors THEN r.authors ELSE <<>>)

MatchDefaults(impl) ==
  (rPc = "returned" /\ rImpl = impl) =>
    /\ HasEntry(rPrimary) => rResult = ExpectedResult(rPrimary)
    /\ (~HasEntry(rPrimary) /\ HasEntry(rSecondary)) => rResult = ExpectedResult(rSecondary)

C14_MatchDefaults == MatchDefaults("hook") /\ MatchDefaults("utils")

\* the resolver of scannerUtils.ts does so
C14_UtilsMatchDefaults == MatchDefaults("utils")

\* the author default holds for both
C14_AuthorDefault ==
  (rPc = "returned" /\ rResult.found) =>
    \/ rResult.authors = (IF rPrimary.hasAuthors THEN rPrimary.authors ELSE <<>>)
    \/ rResult.authors = (IF rSecondary.hasAuthors THEN rSecondary.authors ELSE <<>>)

(***************************************************************************)
(* C15: a scanned or typed string of which normalisation leaves nothing    *)
(* sends no request and leaves currentISBN, isProcessingISBN, scanning and *)
(* the stored books as they are.                                           *)
(***************************************************************************)
EmptyInputHandled == lastEvent' \in {"emptyScan", "emptySubmit"}

NoRequestSent == \A i \in ISBNs : ~PrimaryRequestSent(i) /\ ~SecondaryRequestSent(i)

C15_EmptyInputIgnored ==
  [][EmptyInputHandled =>
       /\ NoRequestSent
       /\ UNCHANGED <<currentISBN, isProcessingISBN, scanning, books, pendingAdds>>]_vars

\* dashes were scanned, or typed and submitted, while the scanner was on and
\* nothing was in process
C15_Witness ==
  /\ lastEvent \in {"emptyScan", "emptySubmit"}
  /\ scanning
  /\ ~cbProcessing
  /\ currentISBN = Null

(***************************************************************************)
(* C16: when a start of the scanner fails - the page is not on a secure    *)
(* origin, the camera permission is denied, no camera is found - that      *)
(* start opens no decode session and a status naming the failure is        *)
(* emitted; after a denial the permission state is 'denied'.               *)
(***************************************************************************)
\* the call i of start() fails in this step, having been at `was` (or "new")
StartFails(i, was) ==
  /\ i \in 1..Len(cStarts')
  /\ cStarts'[i].pc = "failed"
  /\ IF i \in 1..Len(cStarts) THEN cStarts[i].pc = was ELSE was = "new"

StartFailureReported ==
  \A i \in 1..MaxStarts :
    /\ \A was \in {"new", "permission", "enumerate", "decode"} :
         StartFails(i, was) => ~cStarts'[i].active
    /\ StartFails(i, "new") => ~cEnv.secure /\ cStatus' = "Camera requires HTTPS"
    /\ StartFails(i, "permission") =>
         \/ cStatus' = "Camera permission denied" /\ cPermission' = "denied"
         \/ cStatus' = "No camera found" /\ cEnv.cams = 0
    /\ StartFails(i, "enumerate") => cStatus' = "No camera found"

\* a failed start never has a session
FailedStartHasNoSession ==
  \A i \in 1..Len(cStarts) : cStarts[i].pc = "failed" => ~cStarts[i].active

C16_WitnessOrigin ==
  Len(cStarts) = 1 /\ cStarts[1].pc = "failed" /\ cStatus = "Camera requires HTTPS"

C16_WitnessNoCamera ==
  Len(cStarts) = 1 /\ cStarts[1].pc = "failed" /\ cStatus = "No camera found"

(***************************************************************************)
(* C17: useOpenLibrarySearch requests a search only for title/author       *)
(* parameters that stayed unchanged for the 500 ms of the debounce: values *)
(* typed over within the interval are never requested, and no request is   *)
(* issued while both title and author are blank.                           *)
(***************************************************************************)
\* a request for k goes out in this step
SearchRequestIssued(k) == sQuery[k] # "fetching" /\ sQuery'[k] = "fetching"

C17_DebouncedSearch ==
  [][\A k \in SearchParams :
       SearchRequestIssued(k) => k \in sHeld' /\ ~Blank(sTitle', sAuthor')]_vars

\* what holds: requested parameters were held for the interval and are not blank
C17_OnlyHeldParams ==
  [][\A k \in SearchParams :
       SearchRequestIssued(k) => k \in sHeld' /\ ~Blank(k.title, k.author)]_vars

\* a first request goes to the parameters in the fields, the timer having fired
C17_FirstRequestCurrent ==
  [][\A k \in SearchParams :
       (SearchRequestIssued(k) /\ sQuery[k] = "idle")
         => k = Params(sTitle, sAuthor) /\ ~sTimer'.set]_vars

\* blank fields, a request repeated: the retry of a failed search whose
\* parameters the debounce has not yet replaced
C17_RetryWhileBlank ==
  /\ Blank(sTitle, sAuthor)
  /\ \E k \in SearchParams : sQuery[k] = "fetching" /\ sFailures[k] > 0 /\ Observed(k)

\* a pending timer is the timer of the parameters in the fields
C17_TimerOfCurrentParams ==
  sTimer.set => sTimer = Pending(sTitle, sAuthor)

(***************************************************************************)
(* C18: the identifier passed to onBookSelected for a selected result is   *)
(* the result's first ISBN if it has one, otherwise its first edition key, *)
(* then its cover edition key, then its work key; a result with neither an *)
(* ISBN nor any key produces no onBookSelected call.                       *)
(***************************************************************************)
HasNoIdentifier(work) ==
  /\ work.isbn = <<>>
  /\ work.edition_key = <<>>
  /\ work.cover_edition_key = <<>>
  /\ work.key = <<>>

\* the identifier the claim names, the work key taken as it is
ClaimedIdentifier(work) ==
  Or(FirstOf(work.isbn),
     Or(FirstOf(work.edition_key), Or(work.cover_edition_key, work.key)))

\* the same with the work key without its '/works/'
AmendedIdentifier(work) ==
  Or(FirstOf(work.isbn),
     Or(FirstOf(work.edition_key),
        Or(work.cover_edition_key, RemoveFirst(work.key, "/works/"))))

C18_IdentifierOfSelection ==
  \A n \in 1..Len(selCalls) :
    /\ selCalls[n].identifier = ClaimedIdentifier(selWorks[selCalls[n].chosen])
    /\ ~HasNoIdentifier(selWorks[selCalls[n].chosen])

C18_IdentifierWithoutPrefix ==
  \A n \in 1..Len(selCalls) :
    /\ selCalls[n].identifier = AmendedIdentifier(selWorks[selCalls[n].chosen])
    /\ ~HasNoIdentifier(selWorks[selCalls[n].chosen])

\* both cases met: a result with ISBN and keys selected, its first ISBN passed;
\* a result with a work key alone selected, the key passed without '/works/'
C18_Witness ==
  /\ Len(selCalls) = 2
  /\ selCalls[1].chosen = 1
  /\ Len(selWorks[1].isbn) = 2
  /\ selWorks[1].edition_key # <<>>
  /\ selCalls[1].identifier = selWorks[1].isbn[1]
  /\ selCalls[2].chosen = 1
  /\ HasNoIdentifier(selWorks[2])

\* a result with only a work key: the identifier is the key without '/works/'
C18_WitnessWorkKey ==
  /\ Len(selCalls) = 1
  /\ selWorks[1].isbn = <<>>
  /\ selWorks[1].edition_key = <<>>
  /\ selWorks[1].cover_edition_key = <<>>
  /\ selCalls[1].chosen = 1
  /\ selCalls[1].identifier = <<"OL1W">>

(***************************************************************************)
(* C19: the locally stored collection survives a reload: the restored      *)
(* items, groups and active group id equal the values held just before     *)
(* the reload, and the stored copy is never replaced by the initial empty  *)
(* state.                                                                  *)
(***************************************************************************)
InitialDoc == StoredDoc(<<>>, <<Group1>>, "GROUP-1")

RestoredAsBefore ==
  /\ SameObjects(jItems, jBefore.items, ItemKeys)
  /\ SameObjects(jGroups, jBefore.groups, GroupKeys)
  /\ jActiveGroupId = jBefore.activeGroupId

\* a mount that puts the initial state in the place of another stored copy
StoredReplacedByInitial ==
  jPc' = "loading" /\ jStored # InitialDoc /\ jStored' = InitialDoc

C19_StoredSurvivesReload ==
  [][/\ (jPc = "loading" /\ jPc' = "ready") => RestoredAsBefore'
     /\ ~StoredReplacedByInitial]_vars

\* what holds: once the restoring render is done, state and stored copy are
\* those of before the reload
C19_RestoredAfterMount ==
  [][(jPc = "loading" /\ jPc' = "ready")
       => RestoredAsBefore' /\ jStored' = jLoaded]_vars

\* a collection with items restored by the render after the reload
C19_Restored ==
  /\ jLastOp = "restore"
  /\ jItems # <<>>
  /\ RestoredAsBefore

(***************************************************************************)
(* C20: while an ISBN is being processed (isProcessingISBN is true) every  *)
(* further camera scan is ignored: it changes neither currentISBN nor      *)
(* starts a lookup, also when the decode callback is delivered after the   *)
(* first accepted scan and before the decode session has stopped.          *)
(***************************************************************************)
\* the step handles a text the decoder delivered
CameraScan == lastEvent' \in {"emptyScan", "ignoredScan", "scan"}

C20_ScanIgnoredWhileProcessing ==
  [][(CameraScan /\ isProcessingISBN) => currentISBN' = currentISBN /\ fresh' = fresh]_vars

\* what holds: a callback that closed over isProcessingISBN = true ignores
\* every scan
C20_ClosureIgnores ==
  [][(CameraScan /\ cbProcessing) => currentISBN' = currentISBN /\ fresh' = fresh]_vars

(***************************************************************************)
(* C21: each accepted scan or manual entry causes at most one addBook      *)
(* call: between the metadata becoming available and the completion        *)
(* callback clearing currentISBN, a re-render of the parent or a change of *)
(* the active group does not make ISBNFetcher call addBook again.          *)
(***************************************************************************)
\* ISBNFetcher's effect calls addBook in this step
AddBookCalled == Len(pendingAdds') > Len(pendingAdds)

\* an insert of the current ISBN is under way
AddUnderWay == \E k \in 1..Len(pendingAdds) : pendingAdds[k].isbn = currentISBN

C21_OneAddPerSubmission ==
  [][(AddBookCalled /\ lastEvent \notin {"scan", "submit"}) => ~AddUnderWay]_vars

\* the same for the effect run that follows the selection of another group
C21_OneAddAcrossGroupChange ==
  [][(AddBookCalled /\ lastEvent = "group") => ~AddUnderWay]_vars

(***************************************************************************)
(* C22: the completion of one lookup never cancels another: when a second  *)
(* ISBN is submitted while the first is still resolved or saved, the       *)
(* completion callback of the first does not discard the second, so every  *)
(* submitted ISBN ends in an addBook call or an error status.              *)
(***************************************************************************)
\* an insert settles in this step and its callbacks run
AddBookSettles == Len(pendingAdds') < Len(pendingAdds)

\* the ISBN submitted last is another one than those being saved
OtherISBNSubmitted ==
  /\ currentISBN # Null
  /\ \A k \in 1..Len(pendingAdds) : pendingAdds[k].isbn # currentISBN

C22_CompletionKeepsOthers ==
  [][(AddBookSettles /\ OtherISBNSubmitted) => currentISBN' = currentISBN]_vars

(***************************************************************************)
(* C23: changing the camera while the scanner runs restarts it: the new    *)
(* camera is selected, scanning goes to false and 100 ms later back to     *)
(* true, and the scanner ends up running exactly one decode session, bound *)
(* to the newly selected camera.                                           *)
(***************************************************************************)
\* the start() called last was called for a camera the user selected, and it
\* got its decode session running; no restart is still to come
RestartedOn(i) ==
  /\ i = Len(cStarts)
  /\ cStarts[i].sel # ""
  /\ cStarts[i].pc = "done"
  /\ cStarts[i].active
  /\ cScanning
  /\ cTimers = 0

C23_RestartOnNewCamera ==
  \A i \in 1..Len(cStarts) :
    RestartedOn(i) =>
      /\ ActiveSessions = {i}
      /\ cStarts[i].device = cSelectedCameraId

\* the session of the camera selected before still runs next to the new one
C23_OldCameraStillDecoding ==
  \E i \in ActiveSessions : \E j \in ActiveSessions :
    /\ RestartedOn(i)
    /\ cStarts[j].device # cSelectedCameraId

(***************************************************************************)
(* C24: once the user has pressed Stop, scanning stays false until the     *)
(* user presses Start again: no timer and no asynchronous callback turns   *)
(* the scanner back on by itself.                                          *)
(***************************************************************************)
C24_StopStays == cStopPressed => ~cScanning

\* the step that turns the scanner on after Stop is the restart timer's
C24_TimerLeavesStopAlone ==
  [][(cTimers' < cTimers /\ cStopPressed) => ~cScanning']_vars

(***************************************************************************)
(* C25: a scanned book is saved into the group that was active when its    *)
(* ISBN was submitted, even if the user selects another group before the   *)
(* metadata lookup or the insert has finished.                             *)
(***************************************************************************)
\* the group named by the addBook call of this step
AddBookGroup == pendingAdds'[Len(pendingAdds')].group_id

\* the first addBook call made for the current ISBN names the group of its
\* submission
C25_SavedIntoGroupAtSubmit ==
  [][(AddBookCalled /\ ~AddUnderWay) => AddBookGroup = submitGroup]_vars

\* so does every later call made for it
C25_EveryCallIntoGroupAtSubmit == [][AddBookCalled => AddBookGroup = submitGroup]_vars

(***************************************************************************)
(* C26: importing a file that is not valid JSON, or a JSON document that   *)
(* lacks the groups field or the items field, leaves groups, items and the *)
(* active group id unchanged; invalid JSON also raises an alert.           *)
(***************************************************************************)
LacksField(doc) ==
  doc.valid /\ ("groups" \notin DOMAIN doc.fields \/ "items" \notin DOMAIN doc.fields)

C26_BadImportChangesNothing ==
  [][\A doc \in HandMadeDocs :
       (onImportJSON(doc) /\ (~doc.valid \/ LacksField(doc))) =>
         /\ UNCHANGED <<jItems, jGroups, jActiveGroupId>>
         /\ ~doc.valid => jAlerted']_vars

\* a file that is not JSON was picked while the collection held items and a
\* second group: the alert was raised and the collection is still there
C26_Witness ==
  /\ jLastOp = "import"
  /\ jAlerted
  /\ Len(jItems) > 0
  /\ Len(jGroups) > 1

\* a JSON document was picked and turned down without an alert while the
\* collection held three groups, which no accepted document of HandMadeDocs has
C26_WitnessFieldLacking ==
  /\ jLastOp = "import"
  /\ ~jAlerted
  /\ Len(jGroups) = 3

(***************************************************************************)
(* C27: creating a book or a group while no user is authenticated fails    *)
(* with a 'Not authenticated' error and performs no database write: the    *)
(* stored books and groups are unchanged.                                  *)
(***************************************************************************)
\* this step is an addBook or a createGroup made without a signed-in user
CreateWithoutUser ==
  /\ dbOps' # dbOps
  /\ dbLast'.op \in {"addBook", "createGroup"}
  /\ dbLast'.actor = NoUser

C27_CreateNeedsUser ==
  [][CreateWithoutUser =>
       /\ ~dbLast'.ok
       /\ dbLast'.error = "Not authenticated"
       /\ UNCHANGED <<dbBooks, dbGroups>>]_vars

\* an addBook without a user has failed over a store that holds rows
C27_Witness ==
  /\ dbLast.op = "addBook"
  /\ dbLast.actor = NoUser
  /\ dbLast.error = "Not authenticated"
  /\ dbBooks # {}
  /\ dbGroups # {}

\* and so has a createGroup
C27_WitnessGroup ==
  /\ dbLast.op = "createGroup"
  /\ dbLast.actor = NoUser
  /\ dbLast.error = "Not authenticated"
  /\ dbGroups # {}

=============================================================================
